---------------------------- MODULE Spec2Model ----------------------------
(***************************************************************************)
(* Model of grocery-compare: the Flask facade (app.py), the two scrapers   *)
(* (scrapers/foodlion.py, scrapers/freshmarket.py) and the unit-price      *)
(* helper (utils/normalize.py).                                            *)
(*                                                                         *)
(* Conventions.                                                            *)
(*  - A text is a sequence of one-character strings; "nbsp" stands for the *)
(*    character U+00A0 and "cent" for the cent sign U+00A2.                *)
(*  - Money and quantities are integers in hundredths (5.99 is 599).       *)
(*  - Python's None is the record NoneV; a present value v is Some(v).     *)
(***************************************************************************)
EXTENDS Integers, Sequences, FiniteSets, TLC

VARIABLES
    files,        \* data/deals_foodlion.json and data/deals_freshmarket.json
    artifacts,    \* the debug and error files under data/ that exist
    flScrape,     \* the Food Lion scrape in flight (either entry point)
    fmScrape,     \* the Fresh Market scrape in flight
    dealsResp,    \* what the last GET /deals answered
    compareResp,  \* what the last GET /compare answered
    call          \* a call of one of the pure helpers: its input and result

vars == <<files, artifacts, flScrape, fmScrape, dealsResp, compareResp, call>>

-----------------------------------------------------------------------------
(* Optional values *)

\* a local name: Body with its parameter bound to v
With(v, Body(_)) == Body(v)

NoneV == [some |-> FALSE]
Some(v) == [some |-> TRUE, v |-> v]

-----------------------------------------------------------------------------
(* Characters and Python's str methods *)

NBSP == "nbsp"
CENT == "cent"

DigitChars == <<"0", "1", "2", "3", "4", "5", "6", "7", "8", "9">>

IsDigit(c) == \E i \in 1..10 : DigitChars[i] = c

DigitVal(c) == (CHOOSE i \in 1..10 : DigitChars[i] = c) - 1

\* Python 3's \s and str.split()/strip() treat U+00A0 as white space.
IsSpace(c) == c \in {" ", NBSP, "\n", "\t"}

UpperChars == <<"A", "B", "C", "D", "E", "F", "G", "H", "I", "J", "K", "L", "M",
                "N", "O", "P", "Q", "R", "S", "T", "U", "V", "W", "X", "Y", "Z">>
LowerChars == <<"a", "b", "c", "d", "e", "f", "g", "h", "i", "j", "k", "l", "m",
                "n", "o", "p", "q", "r", "s", "t", "u", "v", "w", "x", "y", "z">>

LowerChar(c) ==
    IF \E i \in 1..26 : UpperChars[i] = c
    THEN LowerChars[CHOOSE i \in 1..26 : UpperChars[i] = c]
    ELSE c

\* str.lower()
Lower(s) == [i \in 1..Len(s) |-> LowerChar(s[i])]

IsWordChar(c) ==
    \/ IsDigit(c)
    \/ c = "_"
    \/ \E i \in 1..26 : UpperChars[i] = c \/ LowerChars[i] = c

\* s[i..j], empty when j < i
Slice(s, i, j) == IF j < i THEN <<>> ELSE SubSeq(s, i, j)

\* str.strip()
Strip(s) ==
    LET keep == {i \in 1..Len(s) : ~IsSpace(s[i])}
    IN  IF keep = {} THEN <<>>
        ELSE Slice(s, CHOOSE i \in keep : \A j \in keep : i <= j,
                      CHOOSE i \in keep : \A j \in keep : j <= i)

\* s.replace("\u00a0", " ")
ReplaceNbsp(s) == [i \in 1..Len(s) |-> IF s[i] = NBSP THEN " " ELSE s[i]]

\* s.replace(",", "")
RemoveCommas(s) == SelectSeq(s, LAMBDA c : c # ",")

\* " ".join(s.split()): the ends are stripped and every run of white space becomes
\* one space (of a run only its first character is kept, as " ")
CollapseWs(s) ==
    With(Strip(s), LAMBDA t :
    With(SelectSeq([i \in 1..Len(t) |-> <<t[i], IF i = 1 THEN "" ELSE t[i - 1]>>],
                   LAMBDA p : ~IsSpace(p[1]) \/ ~IsSpace(p[2])), LAMBDA kept :
      [i \in 1..Len(kept) |-> IF IsSpace(kept[i][1]) THEN " " ELSE kept[i][1]]))

\* whether needle occurs in s at position i
OccursAt(s, i, needle) ==
    /\ i >= 1
    /\ i + Len(needle) - 1 <= Len(s)
    /\ \A k \in 1..Len(needle) : s[i + k - 1] = needle[k]

\* needle in s
Contains(s, needle) == \E i \in 1..(Len(s) + 1) : OccursAt(s, i, needle)

HasChar(s, c) == \E i \in 1..Len(s) : s[i] = c

\* s.split(c, 1)[0] for a character c that occurs in s
BeforeFirst(s, c) ==
    LET i == CHOOSE k \in 1..Len(s) : s[k] = c /\ \A j \in 1..(k - 1) : s[j] # c
    IN  Slice(s, 1, i - 1)

MinOf(S) == CHOOSE x \in S : \A y \in S : x <= y

\* the end of the maximal run of digits that starts at i (i - 1 when there is none)
RECURSIVE DigitRunEnd(_, _)
DigitRunEnd(s, i) ==
    IF i <= Len(s) /\ IsDigit(s[i]) THEN DigitRunEnd(s, i + 1) ELSE i - 1

RECURSIVE SkipSpaces(_, _)
SkipSpaces(s, i) ==
    IF i <= Len(s) /\ IsSpace(s[i]) THEN SkipSpaces(s, i + 1) ELSE i

\* int("123")
RECURSIVE DigitsToInt(_)
DigitsToInt(ds) ==
    IF ds = <<>> THEN 0
    ELSE 10 * DigitsToInt(Slice(ds, 1, Len(ds) - 1)) + DigitVal(ds[Len(ds)])

-----------------------------------------------------------------------------
(* JSON values, as json.loads and Playwright's resp.json() build them.     *)
(* An object is the sequence of its <<key, value>> pairs in document order *)
(* (a Python dict keeps insertion order); its keys are distinct.           *)

JNull == [t |-> "null"]
JNum(n) == [t |-> "num", n |-> n, isInt |-> FALSE]
JInt(n) == [t |-> "num", n |-> 100 * n, isInt |-> TRUE]
JStr(s) == [t |-> "str", s |-> s]
JObj(kv) == [t |-> "obj", kv |-> kv]
JArr(a) == [t |-> "arr", a |-> a]

\* dict.get(key): None when the key is missing
Get(obj, key) ==
    IF \E i \in 1..Len(obj.kv) : obj.kv[i][1] = key
    THEN obj.kv[CHOOSE i \in 1..Len(obj.kv) : obj.kv[i][1] = key][2]
    ELSE JNull

\* Python truthiness
Truthy(v) ==
    CASE v.t = "null" -> FALSE
      [] v.t = "num"  -> v.n # 0
      [] v.t = "str"  -> v.s # <<>>
      [] v.t = "obj"  -> v.kv # <<>>
      [] v.t = "arr"  -> v.a # <<>>

\* a or b
Or(a, b) == IF Truthy(a) THEN a ELSE b

\* the spelling of the object keys that occur inside the price objects of the model
KeyText(k) ==
    CASE k = "amount"  -> <<"a", "m", "o", "u", "n", "t">>
      [] k = "value"   -> <<"v", "a", "l", "u", "e">>
      [] k = "current" -> <<"c", "u", "r", "r", "e", "n", "t">>
      [] k = "sale"    -> <<"s", "a", "l", "e">>
      [] OTHER         -> <<"k", "e", "y">>

RECURSIVE NatText(_)
NatText(n) ==
    IF n < 10 THEN <<DigitChars[n + 1]>>
    ELSE NatText(n \div 10) \o <<DigitChars[(n % 10) + 1]>>

\* str() of an int or float holding n hundredths: 5, 5.0, 5.5, 3.49, -1
NumText(n, isInt) ==
    LET a == IF n < 0 THEN -n ELSE n
        sign == IF n < 0 THEN <<"-">> ELSE <<>>
        frac == IF a % 10 = 0 THEN NatText((a % 100) \div 10)
                ELSE <<DigitChars[((a % 100) \div 10) + 1], DigitChars[(a % 10) + 1]>>
    IN  IF isInt THEN sign \o NatText(a \div 100)
        ELSE sign \o NatText(a \div 100) \o <<".">> \o frac

\* str(v), the repr of a dict or list included
RECURSIVE PyStr(_, _)
RECURSIVE PyItems(_, _)
PyItems(xs, isObj) ==
    IF xs = <<>> THEN <<>>
    ELSE (IF isObj
          THEN <<"'">> \o KeyText(Head(xs)[1]) \o <<"'", ":", " ">>
               \o PyStr(Head(xs)[2], TRUE)
          ELSE PyStr(Head(xs), TRUE))
         \o (IF Len(xs) > 1 THEN <<",", " ">> ELSE <<>>)
         \o PyItems(Tail(xs), isObj)

PyStr(v, quoted) ==
    CASE v.t = "null" -> <<"N", "o", "n", "e">>
      [] v.t = "num"  -> NumText(v.n, v.isInt)
      [] v.t = "str"  -> IF quoted THEN <<"'">> \o v.s \o <<"'">> ELSE v.s
      [] v.t = "obj"  -> <<"{">> \o PyItems(v.kv, TRUE) \o <<"}">>
      [] v.t = "arr"  -> <<"[">> \o PyItems(v.a, FALSE) \o <<"]">>

-----------------------------------------------------------------------------
(* The money regular expressions.  A match is [ok, ...]; re.search returns *)
(* the match at the leftmost position that has one.                        *)

NoMatch == [ok |-> FALSE]

\* ([0-9]+(?:\.[0-9]{1,2})?) at i: the digits, then greedily one or two decimals
AmountAt(s, i) ==
    IF ~(i <= Len(s) /\ IsDigit(s[i])) THEN NoMatch
    ELSE With(DigitRunEnd(s, i), LAMBDA e :
         With(IF e + 2 <= Len(s) /\ s[e + 1] = "." /\ IsDigit(s[e + 2])
              THEN (IF e + 3 <= Len(s) /\ IsDigit(s[e + 3]) THEN 2 ELSE 1)
              ELSE 0, LAMBDA nfrac :
           [ok |-> TRUE,
            cents |-> 100 * DigitsToInt(Slice(s, i, e))
                      + (CASE nfrac = 0 -> 0
                           [] nfrac = 1 -> 10 * DigitVal(s[e + 2])
                           [] nfrac = 2 -> 10 * DigitVal(s[e + 2]) + DigitVal(s[e + 3])),
            last |-> IF nfrac = 0 THEN e ELSE e + 1 + nfrac]))

\* \$?\s*([0-9]+(?:\.[0-9]{1,2})?) at i
PlainAt(s, i) ==
    LET j == IF i <= Len(s) /\ s[i] = "$" THEN i + 1 ELSE i
    IN  AmountAt(s, SkipSpaces(s, j))

\* \s*\$?\s*([0-9]+(?:\.[0-9]{1,2})?) at i: the tail of the multi-buy pattern
TotalAt(s, i) ==
    With(SkipSpaces(s, i), LAMBDA j :
      AmountAt(s, SkipSpaces(s, IF j <= Len(s) /\ s[j] = "$" THEN j + 1 ELSE j)))

\* "for" at i under re.I
ForAt(s, i) ==
    /\ i + 2 <= Len(s)
    /\ LowerChar(s[i]) = "f" /\ LowerChar(s[i + 1]) = "o" /\ LowerChar(s[i + 2]) = "r"

\* (\d+)\s*SEP\s*\$?\s*([0-9]+(?:\.[0-9]{1,2})?) at i, where sepEnd(s, j) is the
\* position after the separator that starts at j, or 0 when there is none
MultiBuyWith(s, i, sepEnd(_, _)) ==
    IF ~(i <= Len(s) /\ IsDigit(s[i])) THEN NoMatch
    ELSE With(DigitRunEnd(s, i), LAMBDA e :
         With(sepEnd(s, SkipSpaces(s, e + 1)), LAMBDA k :
           IF k = 0 THEN NoMatch
           ELSE With(TotalAt(s, k), LAMBDA tot :
                  IF ~tot.ok THEN NoMatch
                  ELSE [ok |-> TRUE, qty |-> DigitsToInt(Slice(s, i, e)),
                        cents |-> tot.cents])))

\* (?:for|/) of app.py
SepForOrSlash(s, j) ==
    IF ForAt(s, j) THEN j + 3
    ELSE IF j <= Len(s) /\ s[j] = "/" THEN j + 1
    ELSE 0

\* (?:for|/\s*for) of scrapers/freshmarket.py
SepForOrSlashFor(s, j) ==
    IF ForAt(s, j) THEN j + 3
    ELSE IF j <= Len(s) /\ s[j] = "/"
         THEN With(SkipSpaces(s, j + 1), LAMBDA k : IF ForAt(s, k) THEN k + 3 ELSE 0)
    ELSE 0

MultiBuyAppAt(s, i) == MultiBuyWith(s, i, SepForOrSlash)

MultiBuyFmAt(s, i) == MultiBuyWith(s, i, SepForOrSlashFor)

\* ([0-9]+)\s*¢ at i
CentsAt(s, i) ==
    IF ~(i <= Len(s) /\ IsDigit(s[i])) THEN NoMatch
    ELSE With(DigitRunEnd(s, i), LAMBDA e :
         With(SkipSpaces(s, e + 1), LAMBDA j :
           IF j <= Len(s) /\ s[j] = CENT
           THEN [ok |-> TRUE, n |-> DigitsToInt(Slice(s, i, e))]
           ELSE NoMatch))

\* re.search(pattern, s)
Search(s, At(_, _)) ==
    With({i \in 1..Len(s) : At(s, i).ok}, LAMBDA hits :
      IF hits = {} THEN NoMatch ELSE At(s, MinOf(hits)))

\* The pairs (total, qty) of the model's inputs whose quotient is a decimal tie at
\* the third place, is not a binary fraction, and has its IEEE-754 double above the
\* tie: 5.99 / 2 = 2.995 -> 3.0 and 3.49 / 2 = 1.745 -> 1.75.
FloatTieAbove == {<<599, 2>>, <<349, 2>>}

\* round(total / qty, 2) in hundredths, qty > 0: Python rounds the double correctly,
\* so an exact binary tie (an odd multiple of 1/8) goes to the even neighbour.
Round2Div(total, qty) ==
    LET q == total \div qty
        r == total % qty
    IN  IF 2 * r < qty THEN q
        ELSE IF 2 * r > qty THEN q + 1
        ELSE IF (2 * q + 1) % 25 = 0 THEN (IF q % 2 = 0 THEN q ELSE q + 1)
        ELSE IF <<total, qty>> \in FloatTieAbove THEN q + 1
        ELSE q

-----------------------------------------------------------------------------
(* The three money parsers *)

\* the rules shared by freshmarket._parse_price and _parse_money_any, after the
\* text is prepared: multi-buy, then plain currency, then cents
MoneyRules(s, MultiBuyAt(_, _)) ==
    With(Search(s, MultiBuyAt), LAMBDA mb :
      IF mb.ok /\ mb.qty > 0 THEN Some(Round2Div(mb.cents, mb.qty))
      ELSE With(Search(s, PlainAt), LAMBDA pl :
             IF pl.ok THEN Some(pl.cents)
             ELSE With(Search(s, CentsAt), LAMBDA ce :
                    IF ce.ok THEN Some(ce.n) ELSE NoneV)))

\* scrapers/freshmarket.py _parse_price(text)
FmParsePrice(text) ==
    IF text = <<>> THEN NoneV
    ELSE MoneyRules(ReplaceNbsp(text), MultiBuyFmAt)

\* app.py _parse_money_any(val), val a JSON value
ParseMoneyAny(val) ==
    CASE val.t = "null" -> NoneV
      [] val.t = "num"  -> Some(val.n)
      [] OTHER          -> MoneyRules(Strip(ReplaceNbsp(PyStr(val, FALSE))), MultiBuyAppAt)

\* scrapers/foodlion.py _parse_price(text)
FlParsePrice(text) ==
    IF text = <<>> THEN NoneV
    ELSE With(Search(RemoveCommas(text), PlainAt), LAMBDA m :
           IF m.ok THEN Some(m.cents) ELSE NoneV)

-----------------------------------------------------------------------------
(* Size hints and the unit extractor of scrapers/freshmarket.py *)

\* the word w (word characters at both ends) at i of the lower-case text t, as \bw\b
WordAt(t, i, w) ==
    /\ OccursAt(t, i, w)
    /\ (i = 1 \/ ~IsWordChar(t[i - 1]))
    /\ (i + Len(w) > Len(t) \/ ~IsWordChar(t[i + Len(w)]))

\* re.search(r"\bw\b", s, re.I) for a lower-case word w
HasWord(s, w) == With(Lower(s), LAMBDA t : \E i \in 1..Len(t) : WordAt(t, i, w))

W_per_lb == <<"p", "e", "r", " ", "l", "b">>
W_lb == <<"l", "b">>
W_lbs == <<"l", "b", "s">>
W_oz == <<"o", "z">>
W_dozen == <<"d", "o", "z", "e", "n">>
W_each == <<"e", "a", "c", "h">>
W_ea == <<"e", "a">>
W_ct == <<"c", "t">>
W_count == <<"c", "o", "u", "n", "t">>
W_pk == <<"p", "k">>
W_pack == <<"p", "a", "c", "k">>
W_pkg == <<"p", "k", "g">>

\* _SIZE_HINTS, and the same list inline in scrapers/foodlion.py
SIZE_HINTS == <<W_per_lb, W_lb, W_oz, W_dozen, W_each, W_ea, W_ct, W_pk, W_pack>>

\* the first hint that occurs in txt as a word, "" when none does (size_text or "")
SizeHint(txt) ==
    With({k \in 1..Len(SIZE_HINTS) : HasWord(txt, SIZE_HINTS[k])}, LAMBDA hits :
      IF hits = {} THEN <<>> ELSE SIZE_HINTS[MinOf(hits)])

\* the patterns with the pound pattern ahead of the ounce pattern
UNIT_PATTERNS_LbFirst ==
    << [words |-> <<W_lb, W_lbs>>, unit |-> "lb"],
       [words |-> <<W_oz>>, unit |-> "oz"],
       [words |-> <<W_ct, W_count>>, unit |-> "ct"],
       [words |-> <<W_pk, W_pack, W_pkg>>, unit |-> "ct"] >>

\* _UNIT_PATTERNS: the unit words of each pattern, in alternation order, and its unit
UNIT_PATTERNS ==
    << [words |-> <<W_oz>>, unit |-> "oz"],
       [words |-> <<W_lb, W_lbs>>, unit |-> "lb"],
       [words |-> <<W_ct, W_count>>, unit |-> "ct"],
       [words |-> <<W_pk, W_pack, W_pkg>>, unit |-> "ct"] >>

\* (\d+(?:\.\d+)?)\s*(w1|w2|..)\b at i of a lower-case text; float(group 1) is kept
\* in hundredths, exact for the quantities of at most two decimals the model uses
QtyUnitAt(t, i, words) ==
    IF ~(i <= Len(t) /\ IsDigit(t[i])) THEN NoMatch
    ELSE With(DigitRunEnd(t, i), LAMBDA e :
         With(e + 2 <= Len(t) /\ t[e + 1] = "." /\ IsDigit(t[e + 2]), LAMBDA hasFrac :
         With(IF hasFrac THEN DigitRunEnd(t, e + 2) ELSE e, LAMBDA fe :
         With(SkipSpaces(t, fe + 1), LAMBDA j :
           IF \E k \in 1..Len(words) :
                 /\ OccursAt(t, j, words[k])
                 /\ (j + Len(words[k]) > Len(t) \/ ~IsWordChar(t[j + Len(words[k])]))
           THEN [ok |-> TRUE,
                 qty |-> 100 * DigitsToInt(Slice(t, i, e))
                         + 10 * (IF hasFrac THEN DigitVal(t[e + 2]) ELSE 0)
                         + (IF hasFrac /\ fe >= e + 3 THEN DigitVal(t[e + 3]) ELSE 0)]
           ELSE NoMatch))))

\* the result of the k-th and later explicit patterns of _extract_unit_info
RECURSIVE UnitFromPatterns(_, _)
UnitFromPatterns(t, k) ==
    IF k > Len(UNIT_PATTERNS) THEN NoMatch
    ELSE With({i \in 1..Len(t) : QtyUnitAt(t, i, UNIT_PATTERNS[k].words).ok}, LAMBDA hits :
           IF hits # {}
           THEN [ok |-> TRUE,
                 qty |-> QtyUnitAt(t, MinOf(hits), UNIT_PATTERNS[k].words).qty,
                 unit |-> UNIT_PATTERNS[k].unit]
           ELSE UnitFromPatterns(t, k + 1))

\* "per\s*lb" as a word
HasPerLb(t) ==
    \E i \in 1..Len(t) :
        /\ OccursAt(t, i, <<"p", "e", "r">>)
        /\ (i = 1 \/ ~IsWordChar(t[i - 1]))
        /\ With(SkipSpaces(t, i + 3), LAMBDA j :
             OccursAt(t, j, W_lb) /\ (j + 2 > Len(t) \/ ~IsWordChar(t[j + 2])))

\* _extract_unit_info(text) -> [qty, unit], each optional
ExtractUnitInfo(text) ==
    IF text = <<>> THEN [qty |-> NoneV, unit |-> NoneV]
    ELSE With(ReplaceNbsp(Lower(text)), LAMBDA t :
         With(UnitFromPatterns(t, 1), LAMBDA m :
           IF m.ok THEN [qty |-> Some(m.qty), unit |-> Some(m.unit)]
           ELSE IF HasWord(t, W_dozen) THEN [qty |-> Some(1200), unit |-> Some("ct")]
           ELSE IF HasWord(t, W_each) \/ HasWord(t, W_ea)
                THEN [qty |-> Some(100), unit |-> Some("ct")]
           ELSE IF HasPerLb(t) \/ HasWord(t, W_lb)
                THEN [qty |-> NoneV, unit |-> Some("lb")]
           ELSE [qty |-> NoneV, unit |-> NoneV]))

-----------------------------------------------------------------------------
(* Deals *)

FOODLION == "food-lion-24503"
FRESHMARKET == "fresh-market-24503"

\* AD_URL of each scraper
AD_URL(store) ==
    IF store = FOODLION THEN "https://www.foodlion.com/savings/weekly-ad/grid-view"
    ELSE "https://www.thefreshmarket.com/features/weekly-features"

\* the item name is cut to this many characters
MaxItemLen == 120

Truncate(name) == Slice(name, 1, IF Len(name) < MaxItemLen THEN Len(name) ELSE MaxItemLen)

\* The dict every extractor builds.  The clock is not modelled: start_date, end_date
\* and fetched_at are the symbolic "today", "today+7" and "now".
Deal(store, item, size, price, qty, unit, promo) ==
    [store_id |-> store, item |-> item, size_text |-> size, price |-> price,
     unit_qty |-> qty, unit |-> unit, start_date |-> "today", end_date |-> "today+7",
     promo_text |-> promo, source |-> AD_URL(store), fetched_at |-> "now"]

\* a key that tells the case of the name apart
DealKeyExact(d) == <<d.item, d.price>>

\* the uniqueness key (item.lower(), price)
DealKey(d) == <<Lower(d.item), d.price>>

\* a de-dup that stops at the first repeated key it drops
RECURSIVE DedupeOnce(_, _)
DedupeOnce(items, seen) ==
    IF items = <<>> THEN <<>>
    ELSE IF DealKey(Head(items)) \in seen THEN Tail(items)
    ELSE <<Head(items)>> \o DedupeOnce(Tail(items), seen \cup {DealKey(Head(items))})

\* the de-dup loops of app.py and scrapers/foodlion.py: keep a deal unless its key
\* was seen
RECURSIVE DedupeFrom(_, _)
DedupeFrom(items, seen) ==
    IF items = <<>> THEN <<>>
    ELSE IF DealKey(Head(items)) \in seen THEN DedupeFrom(Tail(items), seen)
    ELSE <<Head(items)>> \o DedupeFrom(Tail(items), seen \cup {DealKey(Head(items))})

Dedupe(items) == DedupeFrom(items, {})

-----------------------------------------------------------------------------
(* The rendered page.  BeautifulSoup's tree is modelled two levels deep: the *)
(* body is a sequence of elements [tag, cls, kids], each kid a text node     *)
(* (tag "#text") or a leaf element [tag, cls, text].                         *)

TextNode(text) == [tag |-> "#text", cls |-> "", text |-> text]
Leaf(tag, cls, text) == [tag |-> tag, cls |-> cls, text |-> text]
Elem(tag, cls, kids) == [tag |-> tag, cls |-> cls, kids |-> kids]

\* a leaf element seen as an element of its own
AsElem(kid) ==
    Elem(kid.tag, kid.cls, IF kid.text = <<>> THEN <<>> ELSE <<TextNode(kid.text)>>)

\* every element of the body in document order: each top element, then its children
RECURSIVE AllElements(_)
AllElements(body) ==
    IF body = <<>> THEN <<>>
    ELSE LET e == Head(body)
             sub == [k \in 1..Len(e.kids) |-> AsElem(e.kids[k])]
         IN  <<e>> \o SelectSeq(sub, LAMBDA x : x.tag # "#text")
             \o AllElements(Tail(body))

\* el.get_text(" ", strip=True): the stripped, non-empty text nodes joined by " "
RECURSIVE JoinTexts(_)
JoinTexts(kids) ==
    IF kids = <<>> THEN <<>>
    ELSE LET t == Strip(Head(kids).text)
             rest == JoinTexts(Tail(kids))
         IN  IF t = <<>> THEN rest
             ELSE IF rest = <<>> THEN t
             ELSE t \o <<" ">> \o rest

GetText(el) == JoinTexts(el.kids)

\* the descendant elements of el
Descendants(el) == SelectSeq(el.kids, LAMBDA k : k.tag # "#text")

-----------------------------------------------------------------------------
(* scrapers/foodlion.py _extract_deals_from_html *)

FL_CARD_TAGS == {"article", "div", "li"}
FL_NAME_TAGS == {"h2", "h3", "h4", "p", "div"}

\* the deal of one card, or NoneV when the card is skipped
FlCardName(card, text) ==
    With(SelectSeq(Descendants(card),
             LAMBDA k : /\ k.tag \in FL_NAME_TAGS
                        /\ Strip(k.text) # <<>>
                        /\ ~HasChar(Strip(k.text), "$")
                        /\ Len(Strip(k.text)) > 2), LAMBDA named :
      IF named # <<>> THEN Some(Strip(Head(named).text))
      ELSE With(Strip(BeforeFirst(text, "$")), LAMBDA name :
             IF Len(name) < 3 THEN NoneV ELSE Some(name)))

FlCardDeal(card) ==
    With(CollapseWs(GetText(card)), LAMBDA text :
      IF ~HasChar(text, "$") THEN NoneV
      ELSE With(FlParsePrice(text), LAMBDA price :
             IF ~price.some \/ price.v = 0 THEN NoneV
             ELSE With(FlCardName(card, text), LAMBDA name :
                    IF ~name.some THEN NoneV
                    ELSE Some(Deal(FOODLION, Truncate(name.v), SizeHint(text), price.v,
                                   NoneV, NoneV, "Weekly Ad")))))

RECURSIVE FlCardDeals(_)
FlCardDeals(cards) ==
    IF cards = <<>> THEN <<>>
    ELSE With(FlCardDeal(Head(cards)), LAMBDA d : IF d.some THEN <<d.v>> ELSE <<>>)
         \o FlCardDeals(Tail(cards))

\* the de-dup at the end of the Food Lion extractor
FlDedupe(deals) == Dedupe(deals)

FlExtractDealsFromHtml(body) ==
    FlDedupe(FlCardDeals(SelectSeq(AllElements(body), LAMBDA e : e.tag \in FL_CARD_TAGS)))

-----------------------------------------------------------------------------
(* scrapers/freshmarket.py _extract_deals_from_html *)

FM_CARD_CLASSES ==
    {"c-card", "card", "grid__item", "product", "product-card", "tile", "teaser", "feature"}
FM_SWEEP_TAGS == {"article", "li", "div", "section"}
FM_TITLE_TAGS == {"h1", "h2", "h3", "h4", "strong"}
FM_TITLE_CLASSES == {"title", "card__title", "product__title", "teaser__title"}

\* the name of a card: the first title-like descendant without a currency sign, else
\* the text before the first "$" (or the cent sign)
FmCardName(card, txt) ==
    With(SelectSeq(Descendants(card),
             LAMBDA k : /\ (k.tag \in FM_TITLE_TAGS \/ k.cls \in FM_TITLE_CLASSES)
                        /\ Strip(k.text) # <<>>
                        /\ ~HasChar(Strip(k.text), "$")
                        /\ ~HasChar(Strip(k.text), CENT)
                        /\ Len(Strip(k.text)) > 2), LAMBDA titles :
      IF titles # <<>> THEN Strip(Head(titles).text)
      ELSE IF HasChar(txt, "$") THEN Strip(BeforeFirst(txt, "$"))
      ELSE IF HasChar(txt, CENT) THEN Strip(BeforeFirst(txt, CENT))
      ELSE txt)

\* one pass of the card loop: acc is [items, seen]
FmCard(card, acc) ==
    With(CollapseWs(GetText(card)), LAMBDA txt :
      IF ~HasChar(txt, "$") /\ ~HasChar(txt, CENT) THEN acc
      ELSE With(FmParsePrice(txt), LAMBDA price :
             IF ~price.some THEN acc
             ELSE With(FmCardName(card, txt), LAMBDA name :
                    IF Len(name) < 3 THEN acc
                    ELSE IF <<Lower(name), price.v>> \in acc.seen THEN acc
                    ELSE With(ExtractUnitInfo(txt), LAMBDA u :
                           [items |-> Append(acc.items,
                                        Deal(FRESHMARKET, Truncate(name), SizeHint(txt),
                                             price.v, u.qty, u.unit, "Weekly Features")),
                            seen |-> acc.seen \cup {<<Lower(name), price.v>>}]))))

RECURSIVE FmCards(_, _)
FmCards(cards, acc) ==
    IF cards = <<>> THEN acc ELSE FmCards(Tail(cards), FmCard(Head(cards), acc))

\* the two selectors in order; the loop stops after the first that produced items
FmExtractDealsFromHtml(body) ==
    With(AllElements(body), LAMBDA all :
    With(FmCards(SelectSeq(all, LAMBDA e : e.cls \in FM_CARD_CLASSES),
                 [items |-> <<>>, seen |-> {}]), LAMBDA first :
      IF first.items # <<>> THEN first.items
      ELSE FmCards(SelectSeq(all, LAMBDA e : e.tag \in FM_SWEEP_TAGS), first).items))

-----------------------------------------------------------------------------
(* app.py scrape_freshmarket: _add_item and walk.  The accumulator is        *)
(* [items, raised]: items_from_json, and whether an exception was raised.    *)

\* a builder that takes any name
AddItemAnyName(acc, name, price, size_text) ==
    With(ParseMoneyAny(price), LAMBDA price_val :
      IF ~price_val.some THEN acc
      ELSE [acc EXCEPT !.items =
               Append(@, Deal(FRESHMARKET, Truncate(Strip(PyStr(name, FALSE))), <<>>,
                              price_val.v, NoneV, NoneV, "Weekly Features"))])

\* _add_item(items_list, name, price, size_text)
AddItem(acc, name, price, size_text) ==
    With(ParseMoneyAny(price), LAMBDA price_val :
      IF ~price_val.some THEN acc
      ELSE With(Strip(PyStr(name, FALSE)), LAMBDA item :
             IF ~Truthy(name) \/ Len(item) < 3 THEN acc
             \* (size_text or "").strip() raises AttributeError unless it is a str
             ELSE IF Truthy(size_text) /\ size_text.t # "str"
                  THEN [acc EXCEPT !.raised = TRUE]
             ELSE [acc EXCEPT !.items =
                      Append(@, Deal(FRESHMARKET, Truncate(item),
                                     IF Truthy(size_text) THEN Strip(size_text.s) ELSE <<>>,
                                     price_val.v, NoneV, NoneV, "Weekly Features"))]))

NAME_KEYS == <<"name", "title", "headline", "productName", "description",
               "primaryText", "tileHeadline", "eyebrow">>
PRICE_KEYS == <<"price", "salePrice", "sale_price", "priceValue", "priceText",
                "formattedPrice", "amount", "value", "regularPrice", "finalPrice",
                "wasPrice", "nowPrice", "currentPrice", "pricePerPound", "price_per",
                "tilePrice", "priceString">>
NESTED_PRICE_KEYS == <<"amount", "value", "current", "sale">>
TEXT_KEYS == <<"copy", "body", "text", "subtitle", "blurb", "richText", "html",
               "content", "secondaryText", "tileSubheadline", "tileCopy">>
SIZE_KEYS == <<"unit", "uom", "size", "sizeText", "unitOfMeasure", "unitText", "priceUnit">>

\* obj.get(k1) or obj.get(k2) or ...: the first truthy value, else the last one
RECURSIVE OrChain(_, _)
OrChain(obj, keys) ==
    IF Len(keys) = 1 THEN Get(obj, keys[1])
    ELSE Or(Get(obj, keys[1]), OrChain(obj, Tail(keys)))

\* the prices parsed from the text-like fields, those that parse
RECURSIVE TextPrices(_, _)
TextPrices(obj, keys) ==
    IF keys = <<>> THEN <<>>
    ELSE With(ParseMoneyAny(Get(obj, Head(keys))),
              LAMBDA parsed : IF parsed.some THEN <<JNum(parsed.v)>> ELSE <<>>)
         \o TextPrices(obj, Tail(keys))

\* cand_prices of a dict node
CandPrices(obj) ==
    [k \in 1..Len(PRICE_KEYS) |-> Get(obj, PRICE_KEYS[k])]
    \o With(Get(obj, "price"), LAMBDA p :
          IF p.t = "obj"
          THEN [k \in 1..Len(NESTED_PRICE_KEYS) |-> Get(p, NESTED_PRICE_KEYS[k])]
          ELSE <<>>)
    \o TextPrices(obj, TEXT_KEYS)

\* for cp in cand_prices: if cp is not None: _add_item(...); a raise ends the loop
RECURSIVE AddCandidates(_, _, _, _)
AddCandidates(acc, name, prices, size_text) ==
    IF prices = <<>> \/ acc.raised THEN acc
    ELSE AddCandidates(IF Head(prices).t = "null" THEN acc
                       ELSE AddItem(acc, name, Head(prices), size_text),
                       name, Tail(prices), size_text)

\* walk(obj)
RECURSIVE Walk(_, _)
RECURSIVE WalkAll(_, _)
Walk(v, acc) ==
    IF acc.raised THEN acc
    ELSE IF v.t = "obj"
    THEN WalkAll([k \in 1..Len(v.kv) |-> v.kv[k][2]],
                 With(OrChain(v, NAME_KEYS), LAMBDA name :
                 With(CandPrices(v), LAMBDA prices :
                   IF Truthy(name) /\ \E k \in 1..Len(prices) : prices[k].t # "null"
                   THEN AddCandidates(acc, name, prices, OrChain(v, SIZE_KEYS))
                   ELSE acc)))
    ELSE IF v.t = "arr" THEN WalkAll(v.a, acc)
    ELSE acc

WalkAll(vs, acc) ==
    IF vs = <<>> \/ acc.raised THEN acc
    ELSE WalkAll(Tail(vs), Walk(Head(vs), acc))

-----------------------------------------------------------------------------
(* app.py scrape_freshmarket: the extraction pipeline, steps A to D.         *)
(* A captured response is [url, data]; a page is [body, ldjson, state]: the  *)
(* element tree, the bodies of the ld+json scripts and the inline            *)
(* window.__NEXT_DATA__ / window.__NUXT__ assignments, each [ok, json]       *)
(* (ok is whether json.loads accepts it).                                    *)

U_NEXT_DATA == <<"/", "_", "n", "e", "x", "t", "/", "d", "a", "t", "a", "/">>
U_WEEKLY == <<"f", "e", "a", "t", "u", "r", "e", "s", "/", "w", "e", "e", "k", "l", "y",
              "-", "f", "e", "a", "t", "u", "r", "e", "s">>

\* below this many items from the features payload every captured response is walked
MinFeatureItems == 3

NoItems == [items |-> <<>>, raised |-> FALSE]

\* features_blobs
FeaturesBlobs(captured) ==
    SelectSeq(captured, LAMBDA b : /\ Contains(b.url, U_NEXT_DATA)
                                   /\ Contains(b.url, U_WEEKLY)
                                   /\ b.data.t = "obj")

\* data.get("pageProps", data)
PageProps(data) ==
    IF \E i \in 1..Len(data.kv) : data.kv[i][1] = "pageProps"
    THEN Get(data, "pageProps") ELSE data

\* A) mine the Next.js features payload
StepA(captured) ==
    With(FeaturesBlobs(captured), LAMBDA fb :
      WalkAll([k \in 1..Len(fb) |-> PageProps(fb[k].data)], NoItems))

\* step B taken only when step A found nothing
StepBWhenEmpty(captured, acc) ==
    IF ~acc.raised /\ acc.items = <<>>
    THEN WalkAll([k \in 1..Len(captured) |-> captured[k].data], acc)
    ELSE acc

\* B) if still sparse, walk all captured JSON
StepB(captured, acc) ==
    IF ~acc.raised /\ Len(acc.items) < MinFeatureItems
    THEN WalkAll([k \in 1..Len(captured) |-> captured[k].data], acc)
    ELSE acc

\* the embedded JSON that json.loads accepts: ld+json first, then the page state
Embedded(page) ==
    With(SelectSeq(page.ldjson \o page.state, LAMBDA e : e.ok), LAMBDA good :
      [k \in 1..Len(good) |-> good[k].json])

\* step C without its "if not items_from_json"
StepCAlways(page, acc) ==
    IF acc.raised THEN acc
    ELSE [WalkAll(Embedded(page), acc) EXCEPT !.raised = FALSE]

\* C) if still empty, mine the embedded JSON; an exception here is swallowed
StepC(page, acc) ==
    IF ~acc.raised /\ acc.items = <<>>
    THEN [WalkAll(Embedded(page), acc) EXCEPT !.raised = FALSE]
    ELSE acc

\* D) the final fallback, the heuristic HTML parser
StepD(page, acc) ==
    IF acc.raised THEN acc
    ELSE IF acc.items # <<>> THEN acc
    ELSE [acc EXCEPT !.items = FmExtractDealsFromHtml(page.body)]

\* the de-dup of the orchestrator
FmDedupe(items) == Dedupe(items)

\* the whole pipeline: [items, raised], items being what is saved
FmPipeline(page, captured) ==
    With(StepD(page, StepC(page, StepB(captured, StepA(captured)))), LAMBDA d :
      IF d.raised THEN d ELSE [d EXCEPT !.items = FmDedupe(@)])

-----------------------------------------------------------------------------
(* utils/normalize.py and the comparison engine of app.py.  A unit price is  *)
(* the exact ratio [n, d] of price to quantity (both in hundredths), d > 0.  *)

Ratio(p, q) == IF q < 0 THEN [n |-> -p, d |-> -q] ELSE [n |-> p, d |-> q]

\* compute_unit_price(price, qty), both optional: None when either is None or zero
ComputeUnitPrice(price, qty) ==
    IF ~price.some \/ price.v = 0 THEN NoneV
    ELSE IF ~qty.some \/ qty.v = 0 THEN NoneV
    ELSE Some(Ratio(price.v, qty.v))

\* d["unit_price"] = compute_unit_price(d.get("price"), d.get("unit_qty"))
WithUnitPrice(d) ==
    d @@ [unit_price |-> ComputeUnitPrice(Some(d.price), d.unit_qty)]

\* the sort key's stand-in for a missing unit price is 9e9 dollars per unit:
\* n / d < 9e9 iff floor(n / 10^6) < 9000 * d
BelowSentinel(u) == (u.n \div 1000000) < 9000 * u.d
AtSentinel(u) == (u.n \div 1000000) = 9000 * u.d /\ u.n % 1000000 = 0

\* the first component of the key of a is smaller than (equal to) that of b
UpLess(a, b) ==
    CASE a.some /\ b.some   -> a.v.n * b.v.d < b.v.n * a.v.d
      [] a.some /\ ~b.some  -> BelowSentinel(a.v)
      [] ~a.some /\ b.some  -> ~BelowSentinel(b.v) /\ ~AtSentinel(b.v)
      [] OTHER              -> FALSE

UpEq(a, b) ==
    CASE a.some /\ b.some   -> a.v.n * b.v.d = b.v.n * a.v.d
      [] a.some /\ ~b.some  -> AtSentinel(a.v)
      [] ~a.some /\ b.some  -> AtSentinel(b.v)
      [] OTHER              -> TRUE

\* a sort key of the price alone
KeyLessByPrice(a, b) == a.price < b.price

\* key(a) < key(b) for key = (unit_price if not None else 9e9, price)
KeyLess(a, b) ==
    \/ UpLess(a.unit_price, b.unit_price)
    \/ UpEq(a.unit_price, b.unit_price) /\ a.price < b.price

\* sorted(candidates, key=...): a stable insertion sort
RECURSIVE InsertSorted(_, _)
InsertSorted(sorted, x) ==
    IF sorted = <<>> THEN <<x>>
    ELSE IF KeyLess(x, Head(sorted)) THEN <<x>> \o sorted
    ELSE <<Head(sorted)>> \o InsertSorted(Tail(sorted), x)

RECURSIVE SortedByKey(_)
SortedByKey(xs) ==
    IF xs = <<>> THEN <<>>
    ELSE InsertSorted(SortedByKey(Slice(xs, 1, Len(xs) - 1)), xs[Len(xs)])

\* s.split(",")
RECURSIVE SplitCommas(_)
SplitCommas(s) ==
    IF ~HasChar(s, ",") THEN <<s>>
    ELSE <<BeforeFirst(s, ",")>>
         \o SplitCommas(Slice(s, Len(BeforeFirst(s, ",")) + 2, Len(s)))

\* wanted = [x.strip().lower() for x in items_q.split(",") if x.strip()]
Wanted(items_q) ==
    With(SelectSeq(SplitCommas(items_q), LAMBDA x : Strip(x) # <<>>), LAMBDA parts :
      [k \in 1..Len(parts) |-> Lower(Strip(parts[k]))])

\* every deal taken as a candidate
CandidatesAll(deals, w) == deals

\* candidates = [d for d in deals if w in d["item"].lower()]
Candidates(deals, w) == SelectSeq(deals, LAMBDA d : Contains(Lower(d.item), w))

\* the pick of one wanted item among its candidates
Best(cands) == SortedByKey(cands)[1]

\* the picks loop
RECURSIVE Picks(_, _)
Picks(deals, wanted) ==
    IF wanted = <<>> THEN <<>>
    ELSE With(Candidates(deals, Head(wanted)),
              LAMBDA c : IF c # <<>> THEN <<Best(c)>> ELSE <<>>)
         \o Picks(deals, Tail(wanted))

RECURSIVE SumPrices(_)
SumPrices(ps) == IF ps = <<>> THEN 0 ELSE Head(ps).price + SumPrices(Tail(ps))

\* a breakdown that gives every store the total of all picks
StoreBreakdownTotals(picks) ==
    [sid \in {picks[k].store_id : k \in 1..Len(picks)} |->
        [items |-> [k \in 1..Len(picks) |-> picks[k].item], subtotal |-> SumPrices(picks)]]

\* store_breakdown: store_id -> [items, subtotal]
StoreBreakdown(picks) ==
    [sid \in {picks[k].store_id : k \in 1..Len(picks)} |->
        With(SelectSeq(picks, LAMBDA p : p.store_id = sid), LAMBDA mine :
          [items |-> [k \in 1..Len(mine) |-> mine[k].item],
           subtotal |-> SumPrices(mine)])]

\* compare() over the loaded deals; sums are exact, as the two-decimal prices make
\* round(total_cost, 2) the exact sum
CompareOn(deals, items_q) ==
    IF items_q = <<>> THEN [status |-> 400]
    ELSE With(Wanted(items_q), LAMBDA wanted :
         With(Picks([k \in 1..Len(deals) |-> WithUnitPrice(deals[k])], wanted),
              LAMBDA picks :
           [status |-> 200, requested_items |-> wanted, picks |-> picks,
            total_items_found |-> Len(picks), estimated_total |-> SumPrices(picks),
            by_store |-> StoreBreakdown(picks)]))

-----------------------------------------------------------------------------
(* The texts the inputs of the model are built from *)

T_Milk == <<"M", "i", "l", "k">>
T_MilkGallon ==
    <<"M", "i", "l", "k", " ", "1", " ", "G", "a", "l", "l", "o", "n", " ", "$", "3", ".",
    "4", "9">>
T_Price349 == <<"$", "3", ".", "4", "9">>
T_Eggs == <<"E", "g", "g", "s", " ", "$", "2", ".", "5", "0", " ", "d", "o", "z", "e", "n">>
T_EGGS ==
    <<"E", "G", "G", "S", " ", " ", "$", "2", ".", "5", "0", NBSP, "d", "o", "z", "e", "n">>
T_Bread0 == <<"B", "r", "e", "a", "d", " ", "$", "0">>
T_Cheese ==
    <<"C", "h", "e", "e", "s", "e", " ", "8", " ", "o", "z", " ", "2", " ", "f", "o", "r",
    " ", "$", "5">>
T_Soda99 == <<"S", "o", "d", "a", " ", "9", "9", CENT, " ", "e", "a", "c", "h">>
T_Nothing == <<"W", "e", "e", "k", "l", "y", " ", "s", "p", "e", "c", "i", "a", "l", "s">>
T_OrganicMilk == <<"O", "r", "g", "a", "n", "i", "c", " ", "M", "i", "l", "k">>
T_Salmon == <<"S", "a", "l", "m", "o", "n">>
T_Steak == <<"R", "i", "b", "e", "y", "e", " ", "S", "t", "e", "a", "k">>
T_Shrimp == <<"S", "h", "r", "i", "m", "p">>
T_Berries == <<"B", "e", "r", "r", "i", "e", "s">>
T_FreeSample == <<"F", "r", "e", "e", " ", "S", "a", "m", "p", "l", "e">>
T_2for5 == <<"2", " ", "f", "o", "r", " ", "$", "5">>
T_599 == <<"$", "5", ".", "9", "9">>
T_perlb == <<"p", "e", "r", " ", "l", "b">>
T_32oz == <<"3", "2", " ", "o", "z">>
T_Now1299 ==
    <<"N", "o", "w", " ", "$", "1", "2", ".", "9", "9", " ", "p", "e", "r", " ", "l", "b">>
T_Coffee == <<"C", "o", "f", "f", "e", "e", " ", "$", "7", ".", "9", "9">>
U_Features ==
    <<"/", "_", "n", "e", "x", "t", "/", "d", "a", "t", "a", "/", "b", "1", "/", "f", "e",
    "a", "t", "u", "r", "e", "s", "/", "w", "e", "e", "k", "l", "y", "-", "f", "e", "a",
    "t", "u", "r", "e", "s", ".", "j", "s", "o", "n">>
U_Api == <<"/", "a", "p", "i", "/", "o", "f", "f", "e", "r", "s">>
Q_milk == <<"m", "i", "l", "k">>
Q_chicken == <<"C", "h", "i", "c", "k", "e", "n">>
Q_chicken_eggs == <<"c", "h", "i", "c", "k", "e", "n", ",", " ", "e", "g", "g", "s">>
Q_none == <<"c", "a", "v", "i", "a", "r">>
Q_gallon == <<"g", "a", "l", "l", "o", "n", ",", ",", "s", "a", "l", "m", "o", "n">>
Q_blank == <<" ", ",", " ">>
T_ChickenBreast == <<"C", "h", "i", "c", "k", "e", "n", " ", "B", "r", "e", "a", "s", "t">>
T_WholeChicken == <<"W", "h", "o", "l", "e", " ", "C", "h", "i", "c", "k", "e", "n">>
T_EggsName == <<"L", "a", "r", "g", "e", " ", "E", "g", "g", "s">>
T_MilkName == <<"W", "h", "o", "l", "e", " ", "M", "i", "l", "k">>
T_lb == <<"l", "b">>
T_dozen == <<"d", "o", "z", "e", "n">>

\* a name longer than MaxItemLen: MaxItemLen times "a", then the suffix
LongName(suffix) == [i \in 1..MaxItemLen |-> "a"] \o suffix

-----------------------------------------------------------------------------
(* Inputs: what the renderer can return *)

Page(body, ldjson, state) == [body |-> body, ldjson |-> ldjson, state |-> state]
Script(json) == [ok |-> TRUE, json |-> json]
BadScript == [ok |-> FALSE, json |-> JNull]
Blob(url, data) == [url |-> url, data |-> data]

\* <div>Milk 1 Gallon $3.49</div>
MilkDiv == Elem("div", "", <<TextNode(T_MilkGallon)>>)

\* <div class="card"><h3>..</h3><span class="price">..</span></div>
Card(title, priceText) ==
    Elem("div", "card", <<Leaf("h3", "", title), Leaf("span", "price", priceText)>>)

\* the rendered Food Lion pages
FlPages ==
    << \* a card with a heading, and a paragraph without a price
       Page(<<Elem("div", "", <<Leaf("h3", "", T_Milk), TextNode(T_Price349)>>),
              Elem("div", "", <<TextNode(T_Nothing)>>)>>, <<>>, <<>>),
       \* the same product twice, in different case
       Page(<<Elem("li", "", <<TextNode(T_Eggs)>>), Elem("li", "", <<TextNode(T_EGGS)>>),
              Elem("li", "", <<TextNode(T_Bread0)>>)>>, <<>>, <<>>),
       \* a page without deals
       Page(<<Elem("div", "", <<TextNode(T_Nothing)>>)>>, <<>>, <<>>) >>

Product(name, price) == JObj(<<<<"name", JStr(name)>>, <<"price", price>>>>)

\* the weekly-features payload with three products
FeaturesFull ==
    JObj(<< <<"pageProps",
              JObj(<< <<"tiles", JArr(<<Product(T_Salmon, JNum(1299)),
                                        Product(T_Steak, JStr(T_Now1299)),
                                        Product(T_Shrimp, JNum(899))>>)>> >>)>> >>)

\* the weekly-features payload with one product
FeaturesSparse ==
    JObj(<< <<"pageProps", JObj(<< <<"hero", Product(T_Salmon, JNum(1299))>> >>)>> >>)

\* the weekly-features payload with two products
FeaturesTwo ==
    JObj(<< <<"pageProps",
              JObj(<< <<"tiles", JArr(<<Product(T_Salmon, JNum(1299)),
                                        Product(T_Shrimp, JNum(899))>>)>> >>)>> >>)

\* another captured response: a price object, and a free product
ApiOffers ==
    JArr(<< JObj(<< <<"title", JStr(T_Berries)>>,
                    <<"price", JObj(<< <<"amount", JNum(349)>> >>)>>,
                    <<"size", JStr(T_32oz)>> >>),
            Product(T_FreeSample, JInt(0)) >>)

\* a captured response whose size is a number: (size_text or "").strip() raises
ApiBadSize ==
    JObj(<< <<"name", JStr(T_Coffee)>>, <<"price", JNum(799)>>, <<"size", JInt(12)>> >>)

\* ld+json of the page: a multi-buy offer and a product without a price
LdOffer ==
    JObj(<< <<"headline", JStr(T_Cheese)>>, <<"text", JStr(T_2for5)>>,
            <<"offers", JArr(<<JObj(<< <<"name", JStr(T_Milk)>> >>)>>)>> >>)

\* the Fresh Market renders: [page, captured]
FmRenders ==
    << \* no structured JSON at all: only the raw HTML has a deal
       [page |-> Page(<<MilkDiv>>, <<>>, <<>>), captured |-> <<>>],
       \* a full features payload; embedded JSON and cards are there as well
       [page |-> Page(<<Card(T_OrganicMilk, T_599)>>, <<Script(LdOffer)>>, <<>>),
        captured |-> <<Blob(U_Features, FeaturesFull), Blob(U_Api, ApiOffers)>>],
       \* a sparse features payload: every captured response is walked
       [page |-> Page(<<MilkDiv>>, <<>>, <<Script(LdOffer)>>),
        captured |-> <<Blob(U_Api, ApiOffers), Blob(U_Features, FeaturesSparse)>>],
       \* nothing captured that has a product; embedded JSON has
       [page |-> Page(<<Card(T_OrganicMilk, T_599)>>, <<BadScript, Script(LdOffer)>>, <<>>),
        captured |-> <<Blob(U_Api, JObj(<< <<"ok", JInt(1)>> >>))>>],
       \* a captured response that makes _add_item raise
       [page |-> Page(<<MilkDiv>>, <<>>, <<>>), captured |-> <<Blob(U_Api, ApiBadSize)>>],
       \* embedded JSON that raises (swallowed), then cards: cents, $0, and two long
       \* names that differ after MaxItemLen characters
       [page |-> Page(<<Card(T_Salmon, T_Soda99), Elem("div", "tile", <<TextNode(T_Bread0)>>),
                        Elem("div", "tile", <<TextNode(LongName(<<"x", " ">>) \o T_599)>>),
                        Elem("div", "tile", <<TextNode(LongName(<<"y", " ">>) \o T_599)>>)>>,
                      <<Script(ApiBadSize)>>, <<>>),
        captured |-> <<>>],
       \* nothing anywhere
       [page |-> Page(<<Elem("div", "", <<TextNode(T_Nothing)>>)>>, <<>>, <<>>),
        captured |-> <<>>],
       \* a features payload one product short of the threshold, and another response
       [page |-> Page(<<MilkDiv>>, <<Script(LdOffer)>>, <<>>),
        captured |-> <<Blob(U_Features, FeaturesTwo), Blob(U_Api, ApiOffers)>>] >>

\* data/deals_sample_24503.json, the hand-written sample the repository ships
SampleDeals ==
    << Deal("kroger-24503", T_ChickenBreast, T_lb, 499, Some(100), Some("lb"), "Weekly Ad"),
       Deal("walmart-24503", T_WholeChicken, T_lb, 899, Some(400), Some("lb"), "Weekly Ad"),
       Deal("kroger-24503", T_EggsName, T_dozen, 250, Some(1200), Some("ct"), "Weekly Ad"),
       Deal("walmart-24503", T_MilkName, <<>>, 329, NoneV, NoneV, "Weekly Ad") >>

\* the items parameter of GET /compare
CompareQueries == <<Q_milk, Q_chicken_eggs, Q_gallon, Q_none, <<>>>>

-----------------------------------------------------------------------------
(* The service: the files under data/, the two scrapes, the two readers.     *)
(* A deal file is [exists, complete, items]: while a scrape writes it, it    *)
(* holds the flushed prefix of the JSON text (items: the deals flushed so    *)
(* far) and is not complete.                                                 *)

\* scrapes started, and /deals and /compare requests answered, in one behaviour
MaxScrapes == 2
MaxReads == 1

\* what each render yields (the extraction depends on the render alone)
FlExtracted == [i \in 1..Len(FlPages) |-> FlExtractDealsFromHtml(FlPages[i].body)]
FmExtracted == [i \in 1..Len(FmRenders) |-> FmPipeline(FmRenders[i].page, FmRenders[i].captured)]

ScrapesStarted == flScrape.runs + fmScrape.runs
ReadsAnswered == dealsResp.n + compareResp.n

Absent == [exists |-> FALSE, complete |-> FALSE, items |-> <<>>]
\* open(path, "w"): the file exists and is empty
Truncated == [exists |-> TRUE, complete |-> FALSE, items |-> <<>>]
Saved(items) == [exists |-> TRUE, complete |-> TRUE, items |-> items]

\* a scrape: where its handler is (pc), its entry point, whether its render failed,
\* the collection it found when it began (pre), the render it got (an index), the
\* deals it extracted, how it answered, and how many scrapes the store has had
Idle == [pc |-> "idle", entry |-> "none", failed |-> FALSE, pre |-> Absent,
         render |-> 0, items |-> <<>>, status |-> "none", runs |-> 0]

Init ==
    /\ files = [foodlion |-> Absent, freshmarket |-> Absent]
    /\ artifacts = {}
    /\ flScrape = Idle
    /\ fmScrape = Idle
    /\ dealsResp = [n |-> 0, status |-> 0, body |-> <<>>]
    /\ compareResp = [n |-> 0, resp |-> [status |-> 0]]
    /\ call = [fn |-> "none"]

\* a scrape begins: remember the collection it found
Begin(entry, file) ==
    [pc |-> "render", entry |-> entry, failed |-> FALSE, pre |-> file, render |-> 0,
     items |-> <<>>, status |-> "none"]

----------------------------------------------------------------------------
(* GET|POST /scrape/foodlion (app.py scrape_foodlion) *)

ScrapeFoodlionStart ==
    /\ flScrape.pc = "idle" /\ ScrapesStarted < MaxScrapes
    /\ flScrape' = Begin("app", files.foodlion) @@ [runs |-> flScrape.runs + 1]
    /\ UNCHANGED <<files, artifacts, fmScrape, dealsResp, compareResp, call>>

\* _find_chromium_executable() finds nothing: the handler answers without rendering
ScrapeFoodlionNoChromium ==
    /\ flScrape.pc = "render" /\ flScrape.entry = "app"
    /\ flScrape' = [flScrape EXCEPT !.pc = "idle", !.failed = TRUE, !.status = "no-chromium"]
    /\ UNCHANGED <<files, artifacts, fmScrape, dealsResp, compareResp, call>>

\* the render succeeded: debug HTML, extraction, and the output file is opened
ScrapeFoodlionRendered(i) ==
    /\ flScrape.pc = "render" /\ flScrape.entry = "app"
    /\ artifacts' = artifacts \cup {"debug_foodlion.html"}
    /\ flScrape' = [flScrape EXCEPT !.pc = "write", !.render = i,
                                    !.items = FlExtracted[i]]
    /\ files' = [files EXCEPT !.foodlion = Truncated]
    /\ UNCHANGED <<fmScrape, dealsResp, compareResp, call>>

\* the render raised: the except branch writes foodlion_error.txt and answers 500
ScrapeFoodlionRenderFailed ==
    /\ flScrape.pc = "render" /\ flScrape.entry = "app"
    /\ artifacts' = artifacts \cup {"foodlion_error.txt"}
    /\ flScrape' = [flScrape EXCEPT !.pc = "idle", !.failed = TRUE, !.status = "error"]
    /\ UNCHANGED <<files, fmScrape, dealsResp, compareResp, call>>

----------------------------------------------------------------------------
(* scrapers/foodlion.py run_and_save_async *)

RunAndSaveStart ==
    /\ flScrape.pc = "idle" /\ ScrapesStarted < MaxScrapes
    /\ flScrape' = Begin("cli", files.foodlion) @@ [runs |-> flScrape.runs + 1]
    /\ UNCHANGED <<files, artifacts, fmScrape, dealsResp, compareResp, call>>

\* fetch_foodlion_deals_async() returned the deals of the rendered page
RunAndSaveFetched(i) ==
    /\ flScrape.pc = "render" /\ flScrape.entry = "cli"
    /\ flScrape' = [flScrape EXCEPT !.pc = "snapshot", !.render = i,
                                    !.items = FlExtracted[i]]
    /\ UNCHANGED <<files, artifacts, fmScrape, dealsResp, compareResp, call>>

\* fetch_foodlion_deals_async() raised: except Exception: items = []
RunAndSaveFetchFailed ==
    /\ flScrape.pc = "render" /\ flScrape.entry = "cli"
    /\ flScrape' = [flScrape EXCEPT !.pc = "snapshot", !.failed = TRUE, !.items = <<>>]
    /\ UNCHANGED <<files, artifacts, fmScrape, dealsResp, compareResp, call>>

\* the second render for the debug snapshot (it may fail too), then the output file
\* is opened
RunAndSaveSnapshot(ok) ==
    /\ flScrape.pc = "snapshot"
    /\ artifacts' = IF ok THEN artifacts \cup {"debug_foodlion.html"} ELSE artifacts
    /\ flScrape' = [flScrape EXCEPT !.pc = "write"]
    /\ files' = [files EXCEPT !.foodlion = Truncated]
    /\ UNCHANGED <<fmScrape, dealsResp, compareResp, call>>

----------------------------------------------------------------------------
(* json.dump(items, f) into the opened file, and its close *)

\* the buffered writer flushes: one more deal of the JSON text is in the file
FlushNext(file, items) == [file EXCEPT !.items = Slice(items, 1, Len(file.items) + 1)]

FoodlionWriteFlush ==
    /\ flScrape.pc = "write" /\ Len(files.foodlion.items) < Len(flScrape.items)
    /\ files' = [files EXCEPT !.foodlion = FlushNext(@, flScrape.items)]
    /\ UNCHANGED <<artifacts, flScrape, fmScrape, dealsResp, compareResp, call>>

FoodlionWriteClose ==
    /\ flScrape.pc = "write"
    /\ files' = [files EXCEPT !.foodlion = Saved(flScrape.items)]
    /\ flScrape' = [flScrape EXCEPT !.pc = "idle", !.status = "ok"]
    /\ UNCHANGED <<artifacts, fmScrape, dealsResp, compareResp, call>>

----------------------------------------------------------------------------
(* GET|POST /scrape/freshmarket (app.py scrape_freshmarket) *)

ScrapeFreshmarketStart ==
    /\ fmScrape.pc = "idle" /\ ScrapesStarted < MaxScrapes
    /\ fmScrape' = Begin("app", files.freshmarket) @@ [runs |-> fmScrape.runs + 1]
    /\ UNCHANGED <<files, artifacts, flScrape, dealsResp, compareResp, call>>

ScrapeFreshmarketNoChromium ==
    /\ fmScrape.pc = "render"
    /\ fmScrape' = [fmScrape EXCEPT !.pc = "idle", !.failed = TRUE, !.status = "no-chromium"]
    /\ UNCHANGED <<files, artifacts, flScrape, dealsResp, compareResp, call>>

FM_ARTIFACTS == {"debug_freshmarket.html", "debug_freshmarket.png", "freshmarket_responses.json"}

\* the render succeeded and the artifacts are saved; then the extraction pipeline
\* runs and either raises (500, freshmarket_error.txt) or opens the output file
ScrapeFreshmarketRendered(i) ==
    /\ fmScrape.pc = "render"
    /\ With(FmExtracted[i], LAMBDA r :
         IF r.raised
         THEN /\ artifacts' = artifacts \cup FM_ARTIFACTS \cup {"freshmarket_error.txt"}
              /\ fmScrape' = [fmScrape EXCEPT !.pc = "idle", !.render = i,
                                              !.status = "error"]
              /\ files' = files
         ELSE /\ artifacts' = artifacts \cup FM_ARTIFACTS
              /\ fmScrape' = [fmScrape EXCEPT !.pc = "write", !.render = i,
                                              !.items = r.items]
              /\ files' = [files EXCEPT !.freshmarket = Truncated])
    /\ UNCHANGED <<flScrape, dealsResp, compareResp, call>>

\* the render raised, before any artifact was written or after the debug HTML was
\* (the screenshot failed): freshmarket_error.txt, 500
ScrapeFreshmarketRenderFailed(htmlSaved) ==
    /\ fmScrape.pc = "render"
    /\ artifacts' = artifacts \cup {"freshmarket_error.txt"}
                    \cup (IF htmlSaved THEN {"debug_freshmarket.html"} ELSE {})
    /\ fmScrape' = [fmScrape EXCEPT !.pc = "idle", !.failed = TRUE, !.status = "error"]
    /\ UNCHANGED <<files, flScrape, dealsResp, compareResp, call>>

FreshmarketWriteFlush ==
    /\ fmScrape.pc = "write" /\ Len(files.freshmarket.items) < Len(fmScrape.items)
    /\ files' = [files EXCEPT !.freshmarket = FlushNext(@, fmScrape.items)]
    /\ UNCHANGED <<artifacts, flScrape, fmScrape, dealsResp, compareResp, call>>

FreshmarketWriteClose ==
    /\ fmScrape.pc = "write"
    /\ files' = [files EXCEPT !.freshmarket = Saved(fmScrape.items)]
    /\ fmScrape' = [fmScrape EXCEPT !.pc = "idle", !.status = "ok"]
    /\ UNCHANGED <<artifacts, flScrape, dealsResp, compareResp, call>>

----------------------------------------------------------------------------
(* GET /deals and GET /compare *)

\* round(p / q, 4) in ten-thousandths, q > 0; an exact tie goes to the even neighbour
Round4Div(p, q) ==
    LET n == 10000 * p
        k == n \div q
        r == n % q
    IN  IF 2 * r < q THEN k
        ELSE IF 2 * r > q THEN k + 1
        ELSE IF k % 2 = 0 THEN k ELSE k + 1

\* the unit_price /deals attaches: qty and price and float(qty) > 0
ListedUnitPrice(d) ==
    IF d.unit_qty.some /\ d.unit_qty.v # 0 /\ d.price # 0 /\ d.unit_qty.v > 0
    THEN Some(Round4Div(d.price, d.unit_qty.v))
    ELSE NoneV

\* p.exists() and p.stat().st_size > 0
Readable(file) == file.exists /\ (file.complete \/ file.items # <<>>)

RECURSIVE Concat(_)
Concat(lists) == IF lists = <<>> THEN <<>> ELSE Head(lists) \o Concat(Tail(lists))

\* deals(): the sample and the scraped files that are there, merged; json.load of a
\* file whose JSON text is not complete raises, which Flask answers with 500
DealsOver(sample, fs) ==
    With(SelectSeq(<<Saved(sample), fs.foodlion, fs.freshmarket>>, Readable),
         LAMBDA sources :
      IF \E k \in 1..Len(sources) : ~sources[k].complete
      THEN [status |-> 500, body |-> <<>>]
      ELSE With(Concat([k \in 1..Len(sources) |-> sources[k].items]), LAMBDA merged :
             [status |-> 200,
              body |-> [k \in 1..Len(merged) |->
                            merged[k] @@ [unit_price |-> ListedUnitPrice(merged[k])]]]))

\* deals() with the sample file of the repository
DealsOn(fs) == DealsOver(SampleDeals, fs)

GetDeals ==
    /\ ReadsAnswered < MaxReads
    /\ dealsResp' = DealsOn(files) @@ [n |-> dealsResp.n + 1]
    /\ UNCHANGED <<files, artifacts, flScrape, fmScrape, compareResp, call>>

\* deals = load_json(DATA_DIR / "deals_sample_24503.json")
LoadedByCompare(fs) == SampleDeals

GetCompare(q) ==
    /\ ReadsAnswered < MaxReads
    /\ compareResp' = [n |-> compareResp.n + 1,
                       resp |-> CompareOn(LoadedByCompare(files), CompareQueries[q])]
    /\ UNCHANGED <<files, artifacts, flScrape, fmScrape, dealsResp, call>>

----------------------------------------------------------------------------

Next ==
    \/ ScrapeFoodlionStart
    \/ ScrapeFoodlionNoChromium
    \/ \E i \in 1..Len(FlPages) : ScrapeFoodlionRendered(i)
    \/ ScrapeFoodlionRenderFailed
    \/ RunAndSaveStart
    \/ \E i \in 1..Len(FlPages) : RunAndSaveFetched(i)
    \/ RunAndSaveFetchFailed
    \/ \E ok \in BOOLEAN : RunAndSaveSnapshot(ok)
    \/ FoodlionWriteFlush
    \/ FoodlionWriteClose
    \/ ScrapeFreshmarketStart
    \/ ScrapeFreshmarketNoChromium
    \/ \E i \in 1..Len(FmRenders) : ScrapeFreshmarketRendered(i)
    \/ \E htmlSaved \in BOOLEAN : ScrapeFreshmarketRenderFailed(htmlSaved)
    \/ FreshmarketWriteFlush
    \/ FreshmarketWriteClose
    \/ GetDeals
    \/ \E q \in 1..Len(CompareQueries) : GetCompare(q)

Spec == Init /\ [][Next]_vars

----------------------------------------------------------------------------
(* The Fresh Market scrape on its own *)

NextFreshmarket ==
    \/ ScrapeFreshmarketStart
    \/ ScrapeFreshmarketNoChromium
    \/ \E i \in 1..Len(FmRenders) : ScrapeFreshmarketRendered(i)
    \/ \E htmlSaved \in BOOLEAN : ScrapeFreshmarketRenderFailed(htmlSaved)
    \/ FreshmarketWriteFlush
    \/ FreshmarketWriteClose

SpecFreshmarket == Init /\ [][NextFreshmarket]_vars

----------------------------------------------------------------------------
(* The money parsers on their own: a text is drawn, then one parser is      *)
(* applied to it.  An input is [kind, n, total, text]: n the count of a     *)
(* multi-buy or the cents of a cents text, total the amount in hundredths.  *)

\* the largest count of a multi-buy text, and the largest N of a cents text
MaxQty == 3
MaxCentN == 99

T_for == <<" ", "f", "o", "r", " ", "$">>
T_slash == <<"/", "$">>
T_free == <<"f", "r", "e", "e">>
T_2FOR5 == <<"2", " ", "F", "O", "R", " ", "$", "5">>

\* the amounts after the currency sign
Totals ==
    << [text |-> <<"5">>, cents |-> 500],
       [text |-> <<"5", ".", "9", "9">>, cents |-> 599],
       [text |-> <<"1", "0">>, cents |-> 1000] >>

MoneyInput(kind, n, total, text) == [kind |-> kind, n |-> n, total |-> total, text |-> text]

MoneyInputs ==
    {MoneyInput("cents", n, 0, NatText(n) \o <<CENT>>) : n \in 0..MaxCentN}
    \cup {MoneyInput("for", n, Totals[t].cents, NatText(n) \o T_for \o Totals[t].text) :
              n \in 0..MaxQty, t \in 1..Len(Totals)}
    \cup {MoneyInput("slash", n, Totals[t].cents, NatText(n) \o T_slash \o Totals[t].text) :
              n \in 0..MaxQty, t \in 1..Len(Totals)}
    \cup {MoneyInput("plain", 0, Totals[t].cents, <<"$">> \o Totals[t].text) :
              t \in 1..Len(Totals)}
    \cup {MoneyInput("for", 2, 500, T_2FOR5), MoneyInput("plain", 0, 349, T_MilkGallon),
          MoneyInput("none", 0, 0, T_free), MoneyInput("none", 0, 0, <<>>)}

InitMoney ==
    /\ files = [foodlion |-> Absent, freshmarket |-> Absent]
    /\ artifacts = {}
    /\ flScrape = Idle
    /\ fmScrape = Idle
    /\ dealsResp = [n |-> 0, status |-> 0, body |-> <<>>]
    /\ compareResp = [n |-> 0, resp |-> [status |-> 0]]
    /\ call \in {[fn |-> "input", inp |-> x, out |-> NoneV] : x \in MoneyInputs}

\* what a call leaves behind: the parser, its input and what it returned
Returned(fn, out) == [fn |-> fn, inp |-> call.inp, out |-> out]

CallFmParsePrice ==
    /\ call.fn = "input"
    /\ call' = Returned("freshmarket._parse_price", FmParsePrice(call.inp.text))
    /\ UNCHANGED <<files, artifacts, flScrape, fmScrape, dealsResp, compareResp>>

CallParseMoneyAny ==
    /\ call.fn = "input"
    /\ call' = Returned("_parse_money_any", ParseMoneyAny(JStr(call.inp.text)))
    /\ UNCHANGED <<files, artifacts, flScrape, fmScrape, dealsResp, compareResp>>

CallFlParsePrice ==
    /\ call.fn = "input"
    /\ call' = Returned("foodlion._parse_price", FlParsePrice(call.inp.text))
    /\ UNCHANGED <<files, artifacts, flScrape, fmScrape, dealsResp, compareResp>>

NextMoney ==
    \/ CallFmParsePrice
    \/ CallParseMoneyAny
    \/ CallFlParsePrice

SpecMoney == InitMoney /\ [][NextMoney]_vars

----------------------------------------------------------------------------
(* The de-dup and save tail of a scrape on its own: the deals an extraction  *)
(* collected are drawn, each handler de-dups them and writes its file.       *)

\* the longest collected list
MaxDeals == 3

T_MILK == <<"M", "I", "L", "K">>

\* what an extraction can collect: the second deal has the key of the first
DedupePool(store) ==
    << Deal(store, T_Milk, <<>>, 349, NoneV, NoneV, "Weekly Ad"),
       Deal(store, T_MILK, T_lb, 349, NoneV, NoneV, "Weekly Ad"),
       Deal(store, T_Milk, <<>>, 399, NoneV, NoneV, "Weekly Ad"),
       Deal(store, T_EggsName, T_dozen, 250, NoneV, NoneV, "Weekly Ad") >>

DealSeqs == UNION {[1..n -> 1..Len(DedupePool(FOODLION))] : n \in 0..MaxDeals}

Collected(store, picked) == [k \in 1..Len(picked) |-> DedupePool(store)[picked[k]]]

Collecting(store, picked) ==
    [Idle EXCEPT !.pc = "dedupe", !.entry = "app", !.items = Collected(store, picked)]

InitDedupe ==
    \E picked \in DealSeqs :
        /\ files = [foodlion |-> Absent, freshmarket |-> Absent]
        /\ artifacts = {}
        /\ flScrape = Collecting(FOODLION, picked)
        /\ fmScrape = Collecting(FRESHMARKET, picked)
        /\ dealsResp = [n |-> 0, status |-> 0, body |-> <<>>]
        /\ compareResp = [n |-> 0, resp |-> [status |-> 0]]
        /\ call = [fn |-> "collected", picked |-> picked]

\* the de-dup that ends foodlion._extract_deals_from_html; the handler then opens
\* the output file
FoodlionDedupe ==
    /\ flScrape.pc = "dedupe"
    /\ flScrape' = [flScrape EXCEPT !.pc = "write", !.items = FlDedupe(@)]
    /\ files' = [files EXCEPT !.foodlion = Truncated]
    /\ UNCHANGED <<artifacts, fmScrape, dealsResp, compareResp, call>>

\* the de-dup of scrape_freshmarket; the handler then opens the output file
FreshmarketDedupe ==
    /\ fmScrape.pc = "dedupe"
    /\ fmScrape' = [fmScrape EXCEPT !.pc = "write", !.items = FmDedupe(@)]
    /\ files' = [files EXCEPT !.freshmarket = Truncated]
    /\ UNCHANGED <<artifacts, flScrape, dealsResp, compareResp, call>>

NextDedupe ==
    \/ FoodlionDedupe
    \/ FoodlionWriteFlush
    \/ FoodlionWriteClose
    \/ FreshmarketDedupe
    \/ FreshmarketWriteFlush
    \/ FreshmarketWriteClose

SpecDedupe == InitDedupe /\ [][NextDedupe]_vars

----------------------------------------------------------------------------
(* The comparison engine on its own: the loaded deals and the items          *)
(* parameter are drawn, then compare() runs over them.                       *)

\* the longest list of loaded deals
MaxLoaded == 3

T_SkimMilk == <<"S", "k", "i", "m", " ", "M", "i", "l", "k">>
T_OatMilk == <<"O", "a", "t", " ", "m", "i", "l", "k">>
T_SoyMilk == <<"S", "o", "y", " ", "M", "I", "L", "K">>
T_MilkSample == <<"M", "i", "l", "k", " ", "s", "a", "m", "p", "l", "e">>
Q_Milk_eggs == <<"M", "i", "l", "k", ",", " ", "e", "g", "g", "s">>
Q_caviar_milk == <<"c", "a", "v", "i", "a", "r", ",", "m", "i", "l", "k">>

\* deals that differ in unit price and price: two with the same unit price, two
\* without a quantity, one that is free
ComparePool ==
    << Deal("kroger-24503", T_MilkName, <<>>, 400, Some(200), Some("ct"), "Weekly Ad"),
       Deal("walmart-24503", T_SkimMilk, <<>>, 200, Some(100), Some("ct"), "Weekly Ad"),
       Deal("kroger-24503", T_OatMilk, <<>>, 250, NoneV, NoneV, "Weekly Ad"),
       Deal("walmart-24503", T_SoyMilk, <<>>, 200, NoneV, NoneV, "Weekly Ad"),
       Deal("kroger-24503", T_EggsName, T_dozen, 150, Some(1200), Some("ct"), "Weekly Ad"),
       Deal("walmart-24503", T_MilkSample, <<>>, 0, Some(100), Some("ct"), "Weekly Ad") >>

LoadedSeqs == UNION {[1..n -> 1..Len(ComparePool)] : n \in 0..MaxLoaded}

InitCompare ==
    /\ files = [foodlion |-> Absent, freshmarket |-> Absent]
    /\ artifacts = {}
    /\ flScrape = Idle
    /\ fmScrape = Idle
    /\ dealsResp = [n |-> 0, status |-> 0, body |-> <<>>]
    /\ compareResp = [n |-> 0, resp |-> [status |-> 0]]
    /\ call \in {[fn |-> "loaded", deals |-> [k \in 1..Len(ld) |-> ComparePool[ld[k]]],
                  items_q |-> q] :
                     ld \in LoadedSeqs,
                     q \in {Q_milk, Q_Milk_eggs, Q_caviar_milk, Q_none, Q_blank}}

\* compare() from the point where the deals are loaded
CompareLoaded ==
    /\ call.fn = "loaded"
    /\ compareResp' = [n |-> compareResp.n + 1, resp |-> CompareOn(call.deals, call.items_q)]
    /\ call' = [call EXCEPT !.fn = "compared"]
    /\ UNCHANGED <<files, artifacts, flScrape, fmScrape, dealsResp>>

NextCompare == CompareLoaded

SpecCompare == InitCompare /\ [][NextCompare]_vars

----------------------------------------------------------------------------
(* The builder on its own: a candidate (name, price, size text) and the list *)
(* collected so far are drawn, then _add_item is applied.                    *)

T_ab == <<"a", "b">>
T_ab_padded == <<" ", " ", "a", "b", " ">>
T_Eggs_padded == <<" ", "E", "g", "g", "s", " ">>
T_dollar == <<"$">>
T_99c == <<"9", "9", CENT>>

\* names: "ok" has three characters or more once trimmed, "short" has not
BuilderNames ==
    { [kind |-> "ok", v |-> JStr(T_Milk)],
      [kind |-> "ok", v |-> JStr(T_Eggs_padded)],
      [kind |-> "ok", v |-> JStr(LongName(T_ab))],
      [kind |-> "short", v |-> JStr(T_ab)],
      [kind |-> "short", v |-> JStr(T_ab_padded)],
      [kind |-> "short", v |-> JStr(<<>>)],
      [kind |-> "short", v |-> JNull] }

\* prices: "none" is absent or has no digit, so that no money pattern matches
BuilderPrices ==
    { [kind |-> "none", v |-> JNull],
      [kind |-> "none", v |-> JStr(T_free)],
      [kind |-> "none", v |-> JStr(<<>>)],
      [kind |-> "none", v |-> JStr(T_dollar)],
      [kind |-> "money", v |-> JStr(T_599)],
      [kind |-> "money", v |-> JStr(T_2FOR5)],
      [kind |-> "money", v |-> JStr(T_99c)],
      [kind |-> "money", v |-> JNum(349)] }

BuilderSizes == {JNull, JStr(<<>>), JStr(T_32oz), JInt(5)}

\* the lists collected before the call
BuilderLists ==
    { NoItems,
      [NoItems EXCEPT !.items =
          <<Deal(FRESHMARKET, T_Salmon, <<>>, 1299, NoneV, NoneV, "Weekly Features")>>] }

InitBuilder ==
    /\ files = [foodlion |-> Absent, freshmarket |-> Absent]
    /\ artifacts = {}
    /\ flScrape = Idle
    /\ fmScrape = Idle
    /\ dealsResp = [n |-> 0, status |-> 0, body |-> <<>>]
    /\ compareResp = [n |-> 0, resp |-> [status |-> 0]]
    /\ call \in {[fn |-> "candidate", acc |-> a, name |-> n, price |-> p, size_text |-> z,
                  out |-> NoItems] :
                     a \in BuilderLists, n \in BuilderNames, p \in BuilderPrices,
                     z \in BuilderSizes}

\* _add_item(items_from_json, name, price, size_text)
CallAddItem ==
    /\ call.fn = "candidate"
    /\ call' = [call EXCEPT !.fn = "_add_item",
                            !.out = AddItem(call.acc, call.name.v, call.price.v,
                                            call.size_text)]
    /\ UNCHANGED <<files, artifacts, flScrape, fmScrape, dealsResp, compareResp>>

NextBuilder == CallAddItem

SpecBuilder == InitBuilder /\ [][NextBuilder]_vars

----------------------------------------------------------------------------
(* The two readers on one deal: the sample file holds one deal whose price   *)
(* and quantity are drawn; /deals and /compare each answer once.             *)

\* prices and quantities of the drawn deal, in hundredths
UnitPricePrices == {129, 250, 349, 1000}
UnitPriceQtys == {NoneV, Some(-100), Some(0), Some(50), Some(100), Some(300), Some(1200)}

InitUnitPrice ==
    /\ files = [foodlion |-> Absent, freshmarket |-> Absent]
    /\ artifacts = {}
    /\ flScrape = Idle
    /\ fmScrape = Idle
    /\ dealsResp = [n |-> 0, status |-> 0, body |-> <<>>]
    /\ compareResp = [n |-> 0, resp |-> [status |-> 0]]
    /\ call \in {[fn |-> "sample",
                  deals |-> <<Deal("kroger-24503", T_MilkName, <<>>, p, q, NoneV,
                                   "Weekly Ad")>>] :
                     p \in UnitPricePrices, q \in UnitPriceQtys}

\* GET /deals over the drawn sample file
ListSample ==
    /\ dealsResp.n = 0
    /\ dealsResp' = DealsOver(call.deals, files) @@ [n |-> 1]
    /\ UNCHANGED <<files, artifacts, flScrape, fmScrape, compareResp, call>>

\* GET /compare?items=milk over the drawn sample file
CompareSample ==
    /\ compareResp.n = 0
    /\ compareResp' = [n |-> 1, resp |-> CompareOn(call.deals, Q_milk)]
    /\ UNCHANGED <<files, artifacts, flScrape, fmScrape, dealsResp, call>>

NextUnitPrice ==
    \/ ListSample
    \/ CompareSample

SpecUnitPrice == InitUnitPrice /\ [][NextUnitPrice]_vars

----------------------------------------------------------------------------
(* The unit extractor on its own: a text is put together from phrases, then  *)
(* _extract_unit_info is applied.  A phrase is [check, n, text]: the check   *)
(* of the extractor it is written for (0: none), and its number in           *)
(* hundredths.                                                               *)

\* the most phrases in a text
MaxPhrases == 2

Phrase(check, n, text) == [check |-> check, n |-> n, text |-> text]

UnitPhrases ==
    { Phrase(1, 1600, <<"1", "6", " ", "o", "z">>),
      Phrase(1, 3200, <<"3", "2", NBSP, "O", "Z">>),
      Phrase(1, 50, <<"0", ".", "5", "o", "z">>),
      Phrase(2, 100, <<"1", " ", "l", "b">>),
      Phrase(2, 250, <<"2", ".", "5", " ", "L", "b", "s">>),
      Phrase(3, 1200, <<"1", "2", " ", "c", "t">>),
      Phrase(3, 600, <<"6", " ", "c", "o", "u", "n", "t">>),
      Phrase(4, 400, <<"4", "p", "k">>),
      Phrase(4, 600, <<"6", " ", "p", "a", "c", "k">>),
      Phrase(4, 200, <<"2", " ", "p", "k", "g">>),
      Phrase(5, 0, <<"D", "o", "z", "e", "n">>),
      Phrase(6, 0, <<"e", "a", "c", "h">>),
      Phrase(6, 0, <<"e", "a">>),
      Phrase(7, 0, <<"p", "e", "r", " ", "l", "b">>),
      Phrase(7, 0, <<"l", "b">>),
      Phrase(0, 0, <<"f", "r", "e", "s", "h">>) }

PhraseSeqs == UNION {[1..n -> UnitPhrases] : n \in 0..MaxPhrases}

\* the phrases one after the other, a space between them
RECURSIVE PhraseText(_)
PhraseText(ps) ==
    IF ps = <<>> THEN <<>>
    ELSE IF Len(ps) = 1 THEN ps[1].text
    ELSE ps[1].text \o <<" ">> \o PhraseText(Tail(ps))

InitUnit ==
    /\ files = [foodlion |-> Absent, freshmarket |-> Absent]
    /\ artifacts = {}
    /\ flScrape = Idle
    /\ fmScrape = Idle
    /\ dealsResp = [n |-> 0, status |-> 0, body |-> <<>>]
    /\ compareResp = [n |-> 0, resp |-> [status |-> 0]]
    /\ call \in {[fn |-> "text", phrases |-> ps, text |-> PhraseText(ps),
                  out |-> [qty |-> NoneV, unit |-> NoneV]] : ps \in PhraseSeqs}

\* _extract_unit_info(text)
CallExtractUnitInfo ==
    /\ call.fn = "text"
    /\ call' = [call EXCEPT !.fn = "_extract_unit_info", !.out = ExtractUnitInfo(call.text)]
    /\ UNCHANGED <<files, artifacts, flScrape, fmScrape, dealsResp, compareResp>>

NextUnit == CallExtractUnitInfo

SpecUnit == InitUnit /\ [][NextUnit]_vars

----------------------------------------------------------------------------
(* The service against its contract *)

\* the deals of a file, none when there is no file
Collection(file) == IF file.exists THEN file.items ELSE <<>>

\* C1: when the render step of a scrape fails, the store's persisted collection is
\* left as it was before the scrape, whichever the entry point.
C1_FailedRenderKeepsCollection ==
    /\ flScrape.failed => Collection(files.foodlion) = Collection(flScrape.pre)
    /\ fmScrape.failed => Collection(files.freshmarket) = Collection(fmScrape.pre)

\* C2: every deal a scrape persists has a price above zero.
C2_PersistedPricesPositive ==
    \A f \in {"foodlion", "freshmarket"} :
        \A k \in 1..Len(files[f].items) : files[f].items[k].price > 0

\* what /deals lists for a collection, and the deals of one store in a response
Listed(items) ==
    [k \in 1..Len(items) |-> items[k] @@ [unit_price |-> ListedUnitPrice(items[k])]]
SeenOf(body, store) == SelectSeq(body, LAMBDA d : d.store_id = store)

\* the whole collections a reader may see of a store: while a scrape writes, the one
\* before the scrape and the one after it
WholeViews(scrape, file) ==
    IF scrape.pc = "write"
    THEN {Listed(Collection(scrape.pre)), Listed(scrape.items)}
    ELSE {Listed(Collection(file))}

\* C5: a reader that runs while a scrape of a store writes sees the whole collection
\* from before the scrape or the whole one after it, never an empty or partial file.
C5_ReadersSeeWholeCollections ==
    [][dealsResp' # dealsResp =>
          /\ dealsResp'.status = 200
          /\ SeenOf(dealsResp'.body, FOODLION) \in WholeViews(flScrape, files.foodlion)
          /\ SeenOf(dealsResp'.body, FRESHMARKET) \in WholeViews(fmScrape, files.freshmarket)
      ]_vars

\* C6: once a scrape has persisted a deal, a compare whose wanted item is part of
\* the deal's name finds a match for that item.
C6_CompareSeesPersistedDeals ==
    [][(compareResp' # compareResp /\ compareResp'.resp.status = 200) =>
          \A f \in {"foodlion", "freshmarket"} :
              files[f].complete =>
                  \A k \in 1..Len(files[f].items) :
                      \A w \in 1..Len(compareResp'.resp.requested_items) :
                          Contains(Lower(files[f].items[k].item),
                                   compareResp'.resp.requested_items[w])
                          => \E p \in 1..Len(compareResp'.resp.picks) :
                                 Contains(Lower(compareResp'.resp.picks[p].item),
                                          compareResp'.resp.requested_items[w])
      ]_vars

----------------------------------------------------------------------------
(* The Fresh Market pipeline against the strategy order *)

\* what each strategy yields on its own for each render
FmStrategies ==
    [i \in 1..Len(FmRenders) |->
        [captured |-> StepB(FmRenders[i].captured, StepA(FmRenders[i].captured)).items,
         embedded |-> WalkAll(Embedded(FmRenders[i].page), NoItems).items,
         html |-> FmExtractDealsFromHtml(FmRenders[i].page.body)]]

\* the candidates of the first strategy that has any
FirstNonEmpty(st) ==
    IF st.captured # <<>> THEN st.captured
    ELSE IF st.embedded # <<>> THEN st.embedded
    ELSE st.html

Elements(seq) == {seq[k] : k \in 1..Len(seq)}

\* the scrape has extracted its list and is saving it, or has saved it
FmExtractedOk == fmScrape.pc = "write" \/ (fmScrape.pc = "idle" /\ fmScrape.status = "ok")

\* C7: the persisted list is made of the candidates of one strategy, the first of
\* captured JSON, embedded JSON, raw HTML that produced any; a later strategy
\* adds nothing when an earlier one produced a candidate.
C7_FirstProductiveStrategyOnly ==
    FmExtractedOk =>
        /\ Elements(fmScrape.items) \subseteq Elements(FirstNonEmpty(FmStrategies[fmScrape.render]))
        /\ \A c \in Elements(FirstNonEmpty(FmStrategies[fmScrape.render])) :
               \E d \in Elements(fmScrape.items) :
                   Lower(d.item) = Lower(c.item) /\ d.price = c.price
        /\ fmScrape.pc = "idle" => files.freshmarket = Saved(fmScrape.items)

\* a saved scrape that took the embedded JSON although the HTML had cards
C7_Witness ==
    /\ fmScrape.pc = "idle" /\ fmScrape.status = "ok"
    /\ FmStrategies[fmScrape.render].captured = <<>>
    /\ FmStrategies[fmScrape.render].embedded # <<>>
    /\ FmStrategies[fmScrape.render].html # <<>>
    /\ fmScrape.items # <<>>
    /\ files.freshmarket = Saved(fmScrape.items)

\* s starts with prefix
StartsWith(s, prefix) == Len(prefix) <= Len(s) /\ SubSeq(s, 1, Len(prefix)) = prefix

\* C8: from '<div>Milk 1 Gallon $3.49</div>' and no structured JSON, the raw-HTML
\* strategy yields a deal named from the text before the currency sign ("Milk ..")
\* and priced at the amount after the sign, 3.49.
C8_HtmlPriceIsCurrencyAmount ==
    (/\ fmScrape.pc = "write"
     /\ FmRenders[fmScrape.render].page = Page(<<MilkDiv>>, <<>>, <<>>)
     /\ FmRenders[fmScrape.render].captured = <<>>)
        => /\ Len(fmScrape.items) = 1
           /\ StartsWith(fmScrape.items[1].item, T_Milk)
           /\ fmScrape.items[1].price = 349

----------------------------------------------------------------------------
(* The de-dup against its contract *)

\* out is deals with every deal dropped whose (lower-case item, price) occurred
\* earlier: a subsequence, first occurrences only, every key kept, no key twice
IsFirstOccurrences(out, deals) ==
    /\ \A i, j \in 1..Len(out) :
           i < j => <<Lower(out[i].item), out[i].price>> # <<Lower(out[j].item), out[j].price>>
    /\ \E at \in [1..Len(out) -> 1..Len(deals)] :
           /\ \A i, j \in 1..Len(out) : i < j => at[i] < at[j]
           /\ \A i \in 1..Len(out) :
                  /\ out[i] = deals[at[i]]
                  /\ \A j \in 1..(at[i] - 1) :
                         <<Lower(deals[j].item), deals[j].price>>
                             # <<Lower(out[i].item), out[i].price>>
    /\ \A j \in 1..Len(deals) :
           \E i \in 1..Len(out) :
               <<Lower(out[i].item), out[i].price>> = <<Lower(deals[j].item), deals[j].price>>

\* the file holds a prefix of the list while it is written, and the list once closed
Persists(file, scrape) ==
    /\ Len(file.items) <= Len(scrape.items)
    /\ file.items = SubSeq(scrape.items, 1, Len(file.items))
    /\ file.complete => file.items = scrape.items

\* C3: the de-dup keeps the first occurrence of every key (lower-case item, price),
\* in input order, and no key twice; so a persisted collection has no key twice.
C3_DedupeKeepsFirstOccurrences ==
    /\ flScrape.pc # "dedupe" =>
           /\ IsFirstOccurrences(flScrape.items, Collected(FOODLION, call.picked))
           /\ Persists(files.foodlion, flScrape)
    /\ fmScrape.pc # "dedupe" =>
           /\ IsFirstOccurrences(fmScrape.items, Collected(FRESHMARKET, call.picked))
           /\ Persists(files.freshmarket, fmScrape)

\* both files are saved, and the de-dup dropped a deal whose name differs in case
\* only from an earlier one
C3_Witness ==
    /\ files.foodlion.complete /\ files.freshmarket.complete
    /\ Len(call.picked) = MaxDeals
    /\ Len(files.freshmarket.items) < Len(call.picked)
    /\ \E i, j \in 1..Len(call.picked) :
           /\ i < j
           /\ Collected(FRESHMARKET, call.picked)[i].item # Collected(FRESHMARKET, call.picked)[j].item
           /\ Lower(Collected(FRESHMARKET, call.picked)[i].item)
                  = Lower(Collected(FRESHMARKET, call.picked)[j].item)
           /\ Collected(FRESHMARKET, call.picked)[i].price = Collected(FRESHMARKET, call.picked)[j].price

----------------------------------------------------------------------------
(* The comparison engine against its contract *)

\* d comes before p in the order (unit_price if present else +infinity, price)
Cheaper(d, p) ==
    \/ d.unit_price.some /\ ~p.unit_price.some
    \/ /\ d.unit_price.some /\ p.unit_price.some
       /\ d.unit_price.v.n * p.unit_price.v.d < p.unit_price.v.n * d.unit_price.v.d
    \/ /\ \/ ~d.unit_price.some /\ ~p.unit_price.some
          \/ /\ d.unit_price.some /\ p.unit_price.some
             /\ d.unit_price.v.n * p.unit_price.v.d = p.unit_price.v.n * d.unit_price.v.d
       /\ d.price < p.price

\* the loaded deals with their unit prices, and those that match a wanted item
Priced == [k \in 1..Len(call.deals) |-> WithUnitPrice(call.deals[k])]
Matching(w) == {d \in Elements(Priced) : Contains(Lower(d.item), w)}
WantedFound == SelectSeq(Wanted(call.items_q), LAMBDA w : Matching(w) # {})

\* C4: for each wanted item compare picks, among the deals whose lower-case name
\* contains it, one that no other matching deal precedes in the order
\* (unit_price if present else +infinity, price).
C4_PickMinimisesUnitPriceThenPrice ==
    call.fn = "compared" =>
        /\ Len(compareResp.resp.picks) = Len(WantedFound)
        /\ \A k \in 1..Len(WantedFound) :
               /\ compareResp.resp.picks[k] \in Matching(WantedFound[k])
               /\ \A d \in Matching(WantedFound[k]) : ~Cheaper(d, compareResp.resp.picks[k])

\* three deals match "milk", and the pick is not the first of them
C4_Witness ==
    /\ call.fn = "compared"
    /\ Len(call.deals) = MaxLoaded
    /\ \A k \in 1..Len(call.deals) : Contains(Lower(call.deals[k].item), Q_milk)
    /\ compareResp.resp.picks # <<>>
    /\ compareResp.resp.picks[1] # Priced[1]
    /\ Cheaper(compareResp.resp.picks[1], Priced[1])

----------------------------------------------------------------------------
(* The money parsers against the parsing rules *)

MoneyParsers == {"freshmarket._parse_price", "_parse_money_any"}

\* C9: freshmarket._parse_price and _parse_money_any map a cents text "<N>¢" to
\* N / 100 (N hundredths of a dollar), for every non-negative integer N.
C9_CentsTextIsHundredths ==
    (call.fn \in MoneyParsers /\ call.inp.kind = "cents")
        => call.out = Some(call.inp.n)

\* C10: freshmarket._parse_price and _parse_money_any map both multi-buy forms,
\* "<N> for $<T>" and "<N>/$<T>" with N > 0, to T / N rounded to two places.
C10_MultiBuyIsTotalOverCount ==
    (call.fn \in MoneyParsers /\ call.inp.kind \in {"for", "slash"} /\ call.inp.n > 0)
        => call.out = Some(Round2Div(call.inp.total, call.inp.n))


----------------------------------------------------------------------------
(* The builder against its contract *)

\* C11: a candidate whose price is absent or matches no money pattern, or whose name
\* has fewer than 3 characters once trimmed, is dropped: the list is as it was and
\* nothing is raised.
C11_BuilderRejectsSilently ==
    (call.fn = "_add_item" /\ (call.price.kind = "none" \/ call.name.kind = "short"))
        => call.out = call.acc

\* a short name with a price that parses and a size text that is no string, after
\* an earlier candidate was collected: dropped, not raised
C11_Witness ==
    /\ call.fn = "_add_item"
    /\ call.name.kind = "short" /\ call.price.kind = "money"
    /\ call.size_text = JInt(5)
    /\ call.acc.items # <<>>
    /\ call.out = call.acc /\ ~call.out.raised


\* C12: a wanted item that no deal's name contains gives no pick; when none of the
\* wanted items matches, total_items_found is 0, estimated_total 0.0 and by_store
\* is empty.
C12_UnmatchedItemsGiveNoPick ==
    call.fn = "compared" =>
        /\ \A w \in Elements(Wanted(call.items_q)) :
               Matching(w) = {} =>
                   \A p \in 1..Len(compareResp.resp.picks) :
                       ~Contains(Lower(compareResp.resp.picks[p].item), w)
        /\ compareResp.resp.total_items_found
               = Cardinality({k \in 1..Len(Wanted(call.items_q)) :
                                  Matching(Wanted(call.items_q)[k]) # {}})
        /\ WantedFound = <<>> =>
               /\ compareResp.resp.picks = <<>>
               /\ compareResp.resp.total_items_found = 0
               /\ compareResp.resp.estimated_total = 0
               /\ DOMAIN compareResp.resp.by_store = {}

\* deals are loaded, an item is wanted, and no deal matches it
C12_Witness ==
    /\ call.fn = "compared"
    /\ Len(call.deals) = MaxLoaded
    /\ Wanted(call.items_q) # <<>>
    /\ WantedFound = <<>>
    /\ compareResp.resp.status = 200
    /\ compareResp.resp.total_items_found = 0

\* the sum of the prices of the deals of ps at the positions ks
RECURSIVE PriceSum(_, _)
PriceSum(ps, ks) ==
    IF ks = {} THEN 0
    ELSE ps[CHOOSE k \in ks : TRUE].price + PriceSum(ps, ks \ {CHOOSE k \in ks : TRUE})

RECURSIVE SubtotalSum(_, _)
SubtotalSum(by_store, sids) ==
    IF sids = {} THEN 0
    ELSE by_store[CHOOSE x \in sids : TRUE].subtotal
         + SubtotalSum(by_store, sids \ {CHOOSE x \in sids : TRUE})

PicksOf(sid) == SelectSeq(compareResp.resp.picks, LAMBDA p : p.store_id = sid)

\* C13: estimated_total is the sum of the picks' prices, one pick per matched wanted
\* item in wanted order; by_store has exactly the picks' stores, each with its
\* picks' names in selection order and the sum of their prices; the subtotals add
\* up to the sum of all picks' prices.
C13_TotalsAreSumsOfPicks ==
    call.fn = "compared" =>
        /\ Len(compareResp.resp.picks) = Len(WantedFound)
        /\ \A k \in 1..Len(WantedFound) :
               Contains(Lower(compareResp.resp.picks[k].item), WantedFound[k])
        /\ compareResp.resp.estimated_total
               = PriceSum(compareResp.resp.picks, DOMAIN compareResp.resp.picks)
        /\ DOMAIN compareResp.resp.by_store
               = {compareResp.resp.picks[k].store_id : k \in DOMAIN compareResp.resp.picks}
        /\ \A sid \in DOMAIN compareResp.resp.by_store :
               /\ compareResp.resp.by_store[sid].items
                      = [k \in 1..Len(PicksOf(sid)) |-> PicksOf(sid)[k].item]
               /\ compareResp.resp.by_store[sid].subtotal
                      = PriceSum(PicksOf(sid), DOMAIN PicksOf(sid))
        /\ SubtotalSum(compareResp.resp.by_store, DOMAIN compareResp.resp.by_store)
               = PriceSum(compareResp.resp.picks, DOMAIN compareResp.resp.picks)

\* two picks from two stores, neither of them free
C13_Witness ==
    /\ call.fn = "compared"
    /\ Len(compareResp.resp.picks) = 2
    /\ Cardinality(DOMAIN compareResp.resp.by_store) = 2
    /\ \A k \in 1..2 : compareResp.resp.picks[k].price > 0
    /\ compareResp.resp.estimated_total
           = compareResp.resp.picks[1].price + compareResp.resp.picks[2].price


\* C14: the de-dup applied to its own output gives that output again, for the de-dup
\* of scrape_freshmarket and for that of foodlion._extract_deals_from_html.
C14_DedupeIsIdempotent ==
    /\ flScrape.pc # "dedupe" => FlDedupe(flScrape.items) = flScrape.items
    /\ fmScrape.pc # "dedupe" => FmDedupe(fmScrape.items) = fmScrape.items

\* both de-dups have run on a list with a repeated key and kept two deals
C14_Witness ==
    /\ flScrape.pc # "dedupe" /\ fmScrape.pc # "dedupe"
    /\ Len(call.picked) = MaxDeals
    /\ Len(flScrape.items) = 2 /\ Len(fmScrape.items) = 2


----------------------------------------------------------------------------
(* The derived unit price against its contract *)

\* C15: the unit price is defined exactly for a deal with a price and a quantity
\* above zero, and then compare's value is price / unit_qty; /deals and compare
\* define it for the same deals, neither for a quantity of zero or less.
C15_UnitPriceDefinedAlike ==
    (call.fn = "sample" /\ dealsResp.n = 1 /\ compareResp.n = 1) =>
        /\ dealsResp.body[1].unit_price.some
               <=> (call.deals[1].unit_qty.some /\ call.deals[1].unit_qty.v > 0)
        /\ compareResp.resp.picks[1].unit_price.some
               <=> (call.deals[1].unit_qty.some /\ call.deals[1].unit_qty.v > 0)
        /\ compareResp.resp.picks[1].unit_price.some =>
               compareResp.resp.picks[1].unit_price.v.n * call.deals[1].unit_qty.v
                   = call.deals[1].price * compareResp.resp.picks[1].unit_price.v.d


----------------------------------------------------------------------------
(* The units of the deals built from JSON *)

\* the saved list came from captured or embedded JSON
FmFromJson ==
    /\ FmExtractedOk
    /\ \/ FmStrategies[fmScrape.render].captured # <<>>
       \/ FmStrategies[fmScrape.render].embedded # <<>>

\* C16: a deal built from a captured-JSON or embedded-JSON node carries the unit the
\* unit extractor finds in its size text: unit and unit_qty are absent only when the
\* extractor finds none, and the size text "32 oz" gives unit_qty 32 and unit oz.
C16_JsonDealsCarryUnits ==
    FmFromJson =>
        \A k \in 1..Len(fmScrape.items) :
            /\ ExtractUnitInfo(fmScrape.items[k].size_text).unit.some
                   => fmScrape.items[k].unit.some
            /\ ExtractUnitInfo(fmScrape.items[k].size_text).qty.some
                   => fmScrape.items[k].unit_qty.some
            /\ fmScrape.items[k].size_text = T_32oz
                   => /\ fmScrape.items[k].unit_qty = Some(3200)
                      /\ fmScrape.items[k].unit = Some("oz")


----------------------------------------------------------------------------
(* The threshold of the features payload *)

\* the candidates of the weekly-features payload of a render, and those of a walk
\* of every captured response
FromFeatures(i) == StepA(FmRenders[i].captured).items
FromAllCaptured(i) ==
    WalkAll([k \in 1..Len(FmRenders[i].captured) |-> FmRenders[i].captured[k].data],
            NoItems).items

\* deal d is the candidate c, up to the case of the name
SameKey(d, c) == Lower(d.item) = Lower(c.item) /\ d.price = c.price

\* C17: when the weekly-features payload yields fewer than 3 candidates every
\* captured response is walked; when it yields 3 or more no other response adds a
\* candidate; the embedded JSON is used only when the captured JSON gave none.
C17_ThresholdFallThrough ==
    FmExtractedOk =>
        /\ Len(FromFeatures(fmScrape.render)) >= 3 =>
               Elements(fmScrape.items) \subseteq Elements(FromFeatures(fmScrape.render))
        /\ Len(FromFeatures(fmScrape.render)) < 3 =>
               \A c \in Elements(FromAllCaptured(fmScrape.render)) :
                   \E d \in Elements(fmScrape.items) : SameKey(d, c)
        /\ (FromFeatures(fmScrape.render) # <<>> \/ FromAllCaptured(fmScrape.render) # <<>>) =>
               \A d \in Elements(fmScrape.items) :
                   \E c \in Elements(FromFeatures(fmScrape.render))
                            \cup Elements(FromAllCaptured(fmScrape.render)) : d = c

\* a saved scrape whose features payload had two candidates, one short of the
\* threshold, and took a deal from another captured response
C17_Witness ==
    /\ fmScrape.pc = "idle" /\ fmScrape.status = "ok"
    /\ Len(FromFeatures(fmScrape.render)) = 2
    /\ \E d \in Elements(fmScrape.items) : d \notin Elements(FromFeatures(fmScrape.render))
    /\ FmStrategies[fmScrape.render].embedded # <<>>
    /\ files.freshmarket = Saved(fmScrape.items)


----------------------------------------------------------------------------
(* The unit extractor against its order of checks *)

\* the earliest check, in the order of the contract, that a phrase of ps is written
\* for (0 when none is), and the first phrase of ps written for that check
FirstCheck(ps) ==
    IF \A k \in 1..Len(ps) : ps[k].check = 0 THEN 0
    ELSE MinOf({ps[k].check : k \in 1..Len(ps)} \ {0})
FirstPhrase(ps) == ps[MinOf({k \in 1..Len(ps) : ps[k].check = FirstCheck(ps)})]

\* what the contract gives for the checks 1 to 7, and for no check
ContractUnit(ps) ==
    CASE FirstCheck(ps) = 1 -> [qty |-> Some(FirstPhrase(ps).n), unit |-> Some("oz")]
      [] FirstCheck(ps) = 2 -> [qty |-> Some(FirstPhrase(ps).n), unit |-> Some("lb")]
      [] FirstCheck(ps) = 3 -> [qty |-> Some(FirstPhrase(ps).n), unit |-> Some("ct")]
      [] FirstCheck(ps) = 4 -> [qty |-> Some(FirstPhrase(ps).n), unit |-> Some("ct")]
      [] FirstCheck(ps) = 5 -> [qty |-> Some(1200), unit |-> Some("ct")]
      [] FirstCheck(ps) = 6 -> [qty |-> Some(100), unit |-> Some("ct")]
      [] FirstCheck(ps) = 7 -> [qty |-> NoneV, unit |-> Some("lb")]
      [] OTHER              -> [qty |-> NoneV, unit |-> NoneV]

\* C18: the unit extractor returns the result of the first check that matches, in
\* the order "<N> oz", "<N> lb|lbs", "<N> ct|count", "<N> pk|pack|pkg", "dozen",
\* "each|ea", "per lb" or "lb"; and (absent, absent) when none matches.
C18_FirstCheckInOrderWins ==
    call.fn = "_extract_unit_info" => call.out = ContractUnit(call.phrases)

\* "1 lb 16 oz": the ounce check comes first in the order, not in the text
C18_Witness ==
    /\ call.fn = "_extract_unit_info"
    /\ call.text = <<"1", " ", "l", "b", " ", "1", "6", " ", "o", "z">>
    /\ call.out = [qty |-> Some(1600), unit |-> Some("oz")]

=============================================================================
